---------------------------- MODULE Spec2Model ----------------------------
(***************************************************************************)
(* Model of the address / distance system:                                 *)
(*   api-principal/main.py   get_address (the address cache and resolver)  *)
(*                           calculate_distance (the trip orchestrator)    *)
(*                           get_history, delete_history_item              *)
(*   api-secundaria/app.py   calculate_distance (the distance engine)      *)
(*                           update_configuration, init_db,                *)
(*                           get_calculations, delete_calculation          *)
(*                                                                         *)
(* Text is a sequence of one-character strings, so that the code's         *)
(* character-level operations (filter(str.isdigit), replace("-", ""),      *)
(* lower(), ord()) are computed and not assumed.  Time is an integer       *)
(* count of half days, so that timedelta.days (a floor) is computed.  The  *)
(* clock runs within a half day too: the created_at of an entry is the     *)
(* half day of its timestamp, and its reading is the number of the clock   *)
(* reading that gave the timestamp, so that of two timestamps of one half  *)
(* day the one read later is the later one.                                *)
(* Floats are IEEE 754 doubles, computed bit for bit.                      *)
(*                                                                         *)
(* A handler is one action for each part of it that runs without leaving   *)
(* room to another call.  The handlers of main.py are coroutines, which    *)
(* give way at their awaits only: at each request they send, and at the    *)
(* exit of "async with", where a call that has committed its writes and    *)
(* has its answer has not handed it over yet.  The handlers of app.py are  *)
(* plain functions that Starlette runs in threads, so that each read of    *)
(* the database or of the clock, each write and the return are steps of    *)
(* their own.                                                              *)
(***************************************************************************)
EXTENDS Integers, Sequences, FiniteSets, TLC

(***************************************************************************)
(* Bounds of the model.                                                    *)
(***************************************************************************)
\* Number of handler calls (get_address, calculate_distance,
\* update_configuration) in a behaviour.
MaxCalls == 2
\* Number of calls of calculate_distance among them.
MaxTrips == 1
\* Number of clock advances in a behaviour.
MaxTicks == 1
\* calls in one run of the specifications that have the handlers of both
\* services
MaxOps == 3
\* Length of the texts the coordinates are synthesized from.
MaxTextLen == 2
\* Calls of get_address that run at the same time.
MaxRequests == 2
\* Clock resolution: time units per day.  With 2 the model counts half
\* days, so ages of 29.5, 30 and 30.5 days exist.
UnitsPerDay == 2

(***************************************************************************)
(* Program constants.                                                      *)
(***************************************************************************)
\* main.py:135  len(cep) != 8
CepLength == 8
\* main.py:147  (now - last_updated).days < 30
FreshDays == 30
(* (end of the program constants) *)

(***************************************************************************)
(* Characters.                                                             *)
(***************************************************************************)
\* The characters str.isdigit accepts: the decimal digits and the other
\* characters Unicode gives a digit value.  Of those beyond ASCII the
\* superscripts two, three and one are held here (the others, such as the
\* fullwidth and the Arabic-Indic digits, are treated by the code in the
\* same way); a fraction such as "½" is numeric but no digit.
Digits == {"0", "1", "2", "3", "4", "5", "6", "7", "8", "9", "²", "³", "¹"}

\* main.py:133  ''.join(filter(str.isdigit, cep))
StripNonDigits(cep) == SelectSeq(cep, LAMBDA ch : ch \in Digits)

\* main.py:135  the guard of the 400 answer, as "the length is accepted"
ValidLength(cep) == Len(cep) = CepLength

\* main.py:170  .replace("-", "")
RemoveHyphens(s) == SelectSeq(s, LAMBDA ch : ch # "-")

(***************************************************************************)
(* The inputs of the model: postal codes as the caller may write them.     *)
(***************************************************************************)
CepA == <<"0", "1", "0", "0", "1", "0", "0", "0">>
CepAHyphen == <<"0", "1", "0", "0", "1", "-", "0", "0", "0">>
CepB == <<"2", "0", "0", "4", "0", "0", "2", "0">>
\* eight characters, seven digits
CepSevenDigits == <<"0", "1", "0", "0", "1", "0", "0", "a">>
\* nine digits around a separator
CepNineDigits == <<"0", "1", "0", "0", "1", "-", "0", "0", "0", "0">>
\* eight characters that str.isdigit accepts, seven of them decimal digits
CepSuperscript == <<"0", "1", "0", "0", "1", "0", "0", "²">>

CepInputs == {CepA, CepAHyphen, CepB, CepSevenDigits, CepNineDigits, CepSuperscript}


(***************************************************************************)
(* The remote address lookup (ViaCEP), an external collaborator.  It is    *)
(* reached at main.py:152, 205 and 213 with the code placed in the URL.    *)
(* Its answer is one of:                                                   *)
(*   "ok"         status 200 and an address payload with every field       *)
(*   "ok_partial" status 200 and a payload without "logradouro" and        *)
(*                without "complemento" (the handler reads every field     *)
(*                with data.get(field, ""), so absent fields are an        *)
(*                answer the code provides for)                            *)
(*   "erro"       status 200 and {"erro": true}                            *)
(*   "400", "404", "503"  that status, which is not 200                    *)
(*   "exception"  no answer: httpx raises (timeout, connection refused)    *)
(* The code does not know what ViaCEP does with a query: every answer can  *)
(* come to every query.                                                    *)
(***************************************************************************)
ViaCepAnswers == {"ok", "ok_partial", "erro", "400", "404", "503", "exception"}

\* ViaCEP writes the code of its payload with a separator after the fifth
\* character: "01001-000".
ViaCepFormat(code) ==
    IF Len(code) > 5
    THEN SubSeq(code, 1, 5) \o <<"-">> \o SubSeq(code, 6, Len(code))
    ELSE code

ViaCepDirectory(code) ==
    IF code = CepB
    THEN [cep         |-> ViaCepFormat(code),
          logradouro  |-> <<"P", "r", "a", "c", "a", " ", "P", "i", "o", " ", "X">>,
          complemento |-> <<>>,
          bairro      |-> <<"C", "e", "n", "t", "r", "o">>,
          localidade  |-> <<"R", "i", "o", " ", "d", "e", " ", "J", "a", "n", "e", "i", "r", "o">>,
          uf          |-> <<"R", "J">>,
          ibge        |-> <<"3", "3", "0", "4", "5", "5", "7">>,
          gia         |-> <<>>,
          ddd         |-> <<"2", "1">>,
          siafi       |-> <<"6", "0", "0", "1">>]
    ELSE [cep         |-> ViaCepFormat(code),
          logradouro  |-> <<"P", "r", "a", "c", "a", " ", "d", "a", " ", "S", "e">>,
          complemento |-> <<"l", "a", "d", "o", " ", "i", "m", "p", "a", "r">>,
          bairro      |-> <<"S", "e">>,
          localidade  |-> <<"S", "a", "o", " ", "P", "a", "u", "l", "o">>,
          uf          |-> <<"S", "P">>,
          ibge        |-> <<"3", "5", "5", "0", "3", "0", "8">>,
          gia         |-> <<"1", "0", "0", "4">>,
          ddd         |-> <<"1", "1">>,
          siafi       |-> <<"7", "1", "0", "7">>]

\* response.json() of an answer with status 200 (a Python dict: a function
\* whose domain is the keys present).  The answer "ok_partial" leaves out
\* logradouro and complemento.
ViaCepPayload(query, answer) ==
    LET full == ViaCepDirectory(StripNonDigits(query))
    IN  CASE answer = "ok"         -> full
          [] answer = "ok_partial" -> [k \in (DOMAIN full) \ {"logradouro", "complemento"} |->
                                          full[k]]
          [] OTHER                 -> [erro |-> TRUE]

\* response.status_code
ViaCepStatus(answer) ==
    CASE answer \in {"ok", "ok_partial", "erro"} -> 200
      [] answer = "400" -> 400
      [] answer = "404" -> 404
      [] answer = "503" -> 503

(***************************************************************************)
(* Python values.                                                          *)
(***************************************************************************)
\* None (never equal to a text, which holds one-character strings only)
None == <<"<None>">>

\* the body of an answer that carries none (an error answer)
NoBody == [none |-> TRUE]

\* data.get(key, "")
DictGet(data, key) == IF key \in DOMAIN data THEN data[key] ELSE <<>>

\* main.py:159  "erro" in data and data["erro"]
HasErro(data) == "erro" \in DOMAIN data /\ data["erro"]

\* main.py:30-40  class Address: the fields without a default are required
AddressRequired == {"cep", "logradouro", "bairro", "localidade", "uf"}
AddressFields == AddressRequired \cup {"complemento", "ibge", "gia", "ddd", "siafi"}

\* Address(**data) raises a ValidationError unless every required field is
\* given; fields that are not declared (last_updated) are ignored.
AddressValid(data) == AddressRequired \subseteq DOMAIN data

\* Address(**data) when it is valid: absent optional fields are None.
Address(data) ==
    [k \in AddressFields |-> IF k \in DOMAIN data THEN data[k] ELSE None]

(***************************************************************************)
(* Storage of api-principal: the tables addresses and history.             *)
(***************************************************************************)
\* main.py:140  SELECT * FROM addresses WHERE cep = ?
SelectAddress(table, cep) == {r \in table : r.cep = cep}

\* Mutant of InsertOrReplace: a plain INSERT into a table without a key; the
\* prior row of the code stays beside the new one.
InsertOrReplace_KeepingBoth(table, row) == table \cup {row}

\* main.py:166  INSERT OR REPLACE INTO addresses (cep is the PRIMARY KEY,
\* main.py:105): the row of the same key, if any, is deleted first.
InsertOrReplace(table, row) == {r \in table : r.cep # row.cep} \cup {row}

\* main.py:169-181  the row written from the payload
AddressRow(data, t) ==
    [cep          |-> RemoveHyphens(DictGet(data, "cep")),
     logradouro   |-> DictGet(data, "logradouro"),
     complemento  |-> DictGet(data, "complemento"),
     bairro       |-> DictGet(data, "bairro"),
     localidade   |-> DictGet(data, "localidade"),
     uf           |-> DictGet(data, "uf"),
     ibge         |-> DictGet(data, "ibge"),
     gia          |-> DictGet(data, "gia"),
     ddd          |-> DictGet(data, "ddd"),
     siafi        |-> DictGet(data, "siafi"),
     last_updated |-> t]

\* Mutant of IsFresh: the comparison turned round.
IsFresh_Inverted(last_updated, t) == ((t - last_updated) \div UnitsPerDay) >= FreshDays

\* Mutant of IsFresh: the thirtieth day counted as fresh.
IsFresh_Inclusive(last_updated, t) == ((t - last_updated) \div UnitsPerDay) <= FreshDays

\* main.py:147  (datetime.now() - last_updated).days < 30; timedelta.days is
\* the floor of the difference in days.
IsFresh(last_updated, t) == ((t - last_updated) \div UnitsPerDay) < FreshDays

\* main.py:186 and 253  INSERT INTO history.  query_data and result are
\* the values the code serialises with str(); the code of an address query
\* is held in a one-field record, so that the entries of both kinds are
\* records.  The clock is read (main.py:164, 250) in the step of the INSERT,
\* so that the timestamps of the entries are in the order of their ids: the
\* reading of an entry is its id.
HistoryRow(id, query_type, query_data, result, t) ==
    [id |-> id, query_type |-> query_type, query_data |-> query_data,
     result |-> result, created_at |-> t, reading |-> id]

\* Mutant of InsertHistory: the insert also stamps the entries there are
\* with the time of the new one.
InsertHistory_Restamping(table, row) ==
    {[h EXCEPT !.created_at = row.created_at] : h \in table} \cup {row}

InsertHistory(table, row) == table \cup {row}
(***************************************************************************)
(* api-secundaria/app.py: the distance engine.                             *)
(***************************************************************************)
\* The letters of Latin-1 that have a capital and a small form whose
\* small form str.lower() gives: A-Z and U+00C0-U+00DE without the
\* multiplication sign.  Every other character of Latin-1 is left as it is.
LowerCase == <<"a", "b", "c", "d", "e", "f", "g", "h", "i", "j", "k", "l", "m",
               "n", "o", "p", "q", "r", "s", "t", "u", "v", "w", "x", "y", "z",
               "à", "á", "â", "ã", "ä", "å", "æ", "ç", "è", "é", "ê", "ë", "ì",
               "í", "î", "ï", "ð", "ñ", "ò", "ó", "ô", "õ", "ö", "ø", "ù", "ú",
               "û", "ü", "ý", "þ">>
UpperCase == <<"A", "B", "C", "D", "E", "F", "G", "H", "I", "J", "K", "L", "M",
               "N", "O", "P", "Q", "R", "S", "T", "U", "V", "W", "X", "Y", "Z",
               "À", "Á", "Â", "Ã", "Ä", "Å", "Æ", "Ç", "È", "É", "Ê", "Ë", "Ì",
               "Í", "Î", "Ï", "Ð", "Ñ", "Ò", "Ó", "Ô", "Õ", "Ö", "Ø", "Ù", "Ú",
               "Û", "Ü", "Ý", "Þ">>
DigitChars == <<"0", "1", "2", "3", "4", "5", "6", "7", "8", "9">>

\* The characters U+0020-U+007E and U+00A0-U+00FF in the order of their
\* codes.  A string of this language cannot hold U+0060: the empty string,
\* which is no character, keeps its place.
AsciiChars == <<" ", "!", "\"", "#", "$", "%", "&", "'", "(", ")", "*", "+", ",",
                "-", ".", "/", "0", "1", "2", "3", "4", "5", "6", "7", "8", "9",
                ":", ";", "<", "=", ">", "?", "@", "A", "B", "C", "D", "E", "F",
                "G", "H", "I", "J", "K", "L", "M", "N", "O", "P", "Q", "R", "S",
                "T", "U", "V", "W", "X", "Y", "Z", "[", "\\", "]", "^", "_", "",
                "a", "b", "c", "d", "e", "f", "g", "h", "i", "j", "k", "l", "m",
                "n", "o", "p", "q", "r", "s", "t", "u", "v", "w", "x", "y", "z",
                "{", "|", "}", "~">>
Latin1Chars == <<" ", "¡", "¢", "£", "¤", "¥", "¦", "§", "¨", "©", "ª", "«", "¬",
                 "­", "®", "¯", "°", "±", "²", "³", "´", "µ", "¶", "·", "¸", "¹",
                 "º", "»", "¼", "½", "¾", "¿", "À", "Á", "Â", "Ã", "Ä", "Å", "Æ",
                 "Ç", "È", "É", "Ê", "Ë", "Ì", "Í", "Î", "Ï", "Ð", "Ñ", "Ò", "Ó",
                 "Ô", "Õ", "Ö", "×", "Ø", "Ù", "Ú", "Û", "Ü", "Ý", "Þ", "ß", "à",
                 "á", "â", "ã", "ä", "å", "æ", "ç", "è", "é", "ê", "ë", "ì", "í",
                 "î", "ï", "ð", "ñ", "ò", "ó", "ô", "õ", "ö", "÷", "ø", "ù", "ú",
                 "û", "ü", "ý", "þ", "ÿ">>

IndexIn(seq, ch) == CHOOSE i \in 1..Len(seq) : seq[i] = ch

IsIn(seq, ch) == \E i \in 1..Len(seq) : seq[i] = ch

\* str.lower() on one character
LowerChar(ch) == IF IsIn(UpperCase, ch) THEN LowerCase[IndexIn(UpperCase, ch)] ELSE ch

\* str.lower()
Lower(text) == [i \in 1..Len(text) |-> LowerChar(text[i])]

\* ord() on one character of Latin-1: the code point
Ord(ch) ==
    CASE IsIn(AsciiChars, ch)  -> 31 + IndexIn(AsciiChars, ch)
      [] IsIn(Latin1Chars, ch) -> 159 + IndexIn(Latin1Chars, ch)
      [] ch = "\t"             -> 9
      [] ch = "\n"             -> 10
      [] ch = "\f"             -> 12
      [] ch = "\r"             -> 13

\* app.py:73, 74, 77  sum(ord(c) for c in text.lower())
RECURSIVE LowerSum(_)
LowerSum(text) ==
    IF text = <<>> THEN 0 ELSE Ord(LowerChar(Head(text))) + LowerSum(Tail(text))

\* Mutant of get_coordinates: the sums are taken without lower().
RECURSIVE RawSum(_)
RawSum(text) == IF text = <<>> THEN 0 ELSE Ord(Head(text)) + RawSum(Tail(text))

get_coordinates_CaseSensitive(city, state, address) ==
    <<(-30 + (RawSum(city) % 25)) * 1000 + (RawSum(address) % 100),
      (-70 + (RawSum(state) % 35)) * 1000 + (RawSum(address) % 100)>>

\* app.py:72-80  get_coordinates, in thousandths of a degree: <<lat, lng>>
get_coordinates(city, state, address) ==
    LET city_hash == LowerSum(city)
        state_hash == LowerSum(state)
        lat == -30 + (city_hash % 25)
        lng == -70 + (state_hash % 35)
        addr_hash == LowerSum(address)
        lat_variation == addr_hash % 100
        lng_variation == addr_hash % 100
    IN  <<lat * 1000 + lat_variation, lng * 1000 + lng_variation>>

(***************************************************************************)
(* Python floats.  A float is an IEEE 754 double; float(), the products    *)
(* and round() of app.py:143-150 are computed as CPython computes them,    *)
(* bit for bit: the value of a finite double is m * 2^e with m below 2^53. *)
(* m does not fit the integers of TLC, so naturals of any size are held    *)
(* as sequences of limbs (digits in base 2^15), the lowest first, without  *)
(* a zero at the high end; zero is the empty sequence.                     *)
(***************************************************************************)
LimbBase == 32768

Max(a, b) == IF a >= b THEN a ELSE b

RECURSIVE BigTrim(_)
BigTrim(a) ==
    IF a # <<>> /\ a[Len(a)] = 0 THEN BigTrim(SubSeq(a, 1, Len(a) - 1)) ELSE a

RECURSIVE BigFromInt(_)
BigFromInt(n) == IF n = 0 THEN <<>> ELSE <<n % LimbBase>> \o BigFromInt(n \div LimbBase)

\* a * k + c, for k and c below the base
RECURSIVE BigMulAdd(_, _, _)
BigMulAdd(a, k, c) ==
    IF a = <<>> THEN BigFromInt(c)
    ELSE LET t == Head(a) * k + c
         IN  <<t % LimbBase>> \o BigMulAdd(Tail(a), k, t \div LimbBase)

\* a + b + c, for c below the base
RECURSIVE BigAdd(_, _, _)
BigAdd(a, b, c) ==
    IF a = <<>> /\ b = <<>> THEN BigFromInt(c)
    ELSE LET x == IF a = <<>> THEN 0 ELSE Head(a)
             y == IF b = <<>> THEN 0 ELSE Head(b)
             t == x + y + c
         IN  <<t % LimbBase>>
                 \o BigAdd(IF a = <<>> THEN a ELSE Tail(a),
                           IF b = <<>> THEN b ELSE Tail(b), t \div LimbBase)

\* a * b
RECURSIVE BigMulRaw(_, _)
BigMulRaw(a, b) ==
    IF b = <<>> \/ a = <<>> THEN <<>>
    ELSE BigAdd(BigMulAdd(a, Head(b), 0), <<0>> \o BigMulRaw(a, Tail(b)), 0)

BigMul(a, b) == BigTrim(BigMulRaw(a, b))

\* quotient and remainder of a by k, for k below the base
RECURSIVE BigDivMod(_, _)
BigDivMod(a, k) ==
    IF a = <<>> THEN [q |-> <<>>, r |-> 0]
    ELSE LET high == BigDivMod(Tail(a), k)
             t == high.r * LimbBase + Head(a)
         IN  [q |-> <<t \div k>> \o high.q, r |-> t % k]

\* the number of binary digits of a limb, and of a natural
RECURSIVE BitLen(_)
BitLen(n) == IF n = 0 THEN 0 ELSE 1 + BitLen(n \div 2)

BigBitLen(a) == IF a = <<>> THEN 0 ELSE 15 * (Len(a) - 1) + BitLen(a[Len(a)])

\* a * 2^s
BigShiftLeft(a, s) ==
    IF a = <<>> THEN <<>>
    ELSE [i \in 1..(s \div 15) |-> 0] \o BigTrim(BigMulAdd(a, 2 ^ (s % 15), 0))

\* a / 2^s for s >= 1: the floor, and where the remainder lies with respect
\* to the half of 2^s (-2: it is zero, -1: below the half, 0: the half, 1:
\* above)
BigShiftRight(a, s) ==
    LET limbs == s \div 15
        bits == s % 15
        low == SubSeq(a, 1, IF limbs < Len(a) THEN limbs ELSE Len(a))
        high == IF limbs < Len(a) THEN SubSeq(a, limbs + 1, Len(a)) ELSE <<>>
        cut == BigDivMod(high, 2 ^ bits)
        lowZero == \A i \in 1..Len(low) : low[i] = 0
        lowTop == IF limbs >= 1 /\ Len(low) = limbs THEN low[limbs] ELSE 0
        lowRestZero == \A i \in 1..Len(low) : i = limbs \/ low[i] = 0
        side == IF bits > 0
                THEN IF cut.r = 0 /\ lowZero THEN -2
                     ELSE IF cut.r < 2 ^ (bits - 1) THEN -1
                     ELSE IF cut.r > 2 ^ (bits - 1) THEN 1
                     ELSE IF lowZero THEN 0 ELSE 1
                ELSE IF lowZero THEN -2
                     ELSE IF lowTop < 16384 THEN -1
                     ELSE IF lowTop > 16384 THEN 1
                     ELSE IF lowRestZero THEN 0 ELSE 1
    IN  [q |-> BigTrim(cut.q), side |-> side]

\* the natural nearest to what was cut, a tie to the even one; more says
\* that the value rounded is a little above the one cut (digits cut off
\* before)
BigRoundCut(cut, more) ==
    IF cut.side = 1 \/ (cut.side = 0 /\ (more \/ (cut.q # <<>> /\ cut.q[1] % 2 = 1)))
    THEN BigAdd(cut.q, <<>>, 1)
    ELSE cut.q

\* a / 2^s rounded to the nearest natural, a tie to the even one
BigRoundShift(a, s, more) == BigRoundCut(BigShiftRight(a, s), more)

\* A float: kind is "finite", "inf" or "nan"; a finite one is m * 2^e, with
\* m of 53 binary digits (fewer for 0 and for the subnormals, where e is
\* -1074), negative when neg.
Double(kind, neg, m, e) == [kind |-> kind, neg |-> neg, m |-> m, e |-> e]

NaN == Double("nan", FALSE, <<>>, 0)
Infinity(neg) == Double("inf", neg, <<>>, 0)
Zero(neg) == Double("finite", neg, <<>>, 0)

\* The double of a mantissa of at most 53 binary digits and its exponent:
\* zero when nothing is left of the mantissa, infinity beyond the largest
\* double.
PackDouble(neg, mantissa, exponent) ==
    IF mantissa = <<>> THEN Zero(neg)
    ELSE IF exponent + BigBitLen(mantissa) > 1024 THEN Infinity(neg)
    ELSE Double("finite", neg, mantissa, exponent)

\* The double of a mantissa that the rounding may have carried to 54
\* binary digits (a one and 53 zeros).
CarryDouble(neg, m, exponent) ==
    IF BigBitLen(m) = 54
    THEN PackDouble(neg, BigShiftRight(m, 1).q, exponent + 1)
    ELSE PackDouble(neg, m, exponent)

\* The double nearest to n * 2^e, for n cut or filled by shift binary
\* digits to the 53 of a mantissa (fewer for a subnormal).
ShiftToDouble(neg, n, e, more, shift) ==
    CarryDouble(neg,
                IF shift > 0 THEN BigRoundShift(n, shift, more)
                ELSE BigShiftLeft(n, -shift),
                e + shift)

\* The double nearest to n * 2^e (a tie to the even mantissa); more says
\* that the value is a little above n * 2^e.
RoundToDouble(neg, n, e, more) ==
    IF n = <<>> THEN Zero(neg)
    ELSE ShiftToDouble(neg, n, e, more, Max(BigBitLen(n) - 53, -1074 - e))

\* n * 10^k (four decimal places at a time)
RECURSIVE BigTimesTen(_, _)
BigTimesTen(n, k) ==
    IF k = 0 THEN n
    ELSE IF k >= 4 THEN BigTimesTen(BigMulAdd(n, 10000, 0), k - 4)
    ELSE BigMulAdd(n, 10 ^ k, 0)

\* n / 10^k: the floor, and whether a remainder was left
RECURSIVE BigOverTen(_, _, _)
BigOverTen(n, k, more) ==
    IF k = 0 THEN [q |-> BigTrim(n), more |-> more]
    ELSE LET places == IF k >= 4 THEN 4 ELSE k
             cut == BigDivMod(n, 10 ^ places)
         IN  BigOverTen(BigTrim(cut.q), k - places, more \/ cut.r # 0)

\* The double nearest to what was cut, times 2^e.
DoubleOfCut(neg, cut, e) == RoundToDouble(neg, cut.q, e, cut.more)

\* The double nearest to d / 10^k: d is taken with s more binary digits, so
\* that the quotient has more than the 53 of a mantissa.
DoubleOfQuotient(neg, d, k, s) ==
    DoubleOfCut(neg, BigOverTen(BigShiftLeft(d, s), k, FALSE), -s)

\* The double nearest to d * 10^e10: what float() gives for a numeral with
\* the digits d and the decimal exponent e10.
DoubleOfDecimal(neg, d, e10) ==
    IF d = <<>> THEN Zero(neg)
    ELSE IF e10 >= 0
    THEN IF e10 > 310 THEN Infinity(neg)
         ELSE RoundToDouble(neg, BigTimesTen(d, e10), 0, FALSE)
    ELSE IF -e10 > 345 + BigBitLen(d) THEN Zero(neg)
    ELSE DoubleOfQuotient(neg, d, -e10, Max(0, 60 + 4 * (-e10) - BigBitLen(d)))

\* x * y
FloatMul(x, y) ==
    LET neg == x.neg # y.neg
        IsZero(z) == z.kind = "finite" /\ z.m = <<>>
    IN  IF x.kind = "nan" \/ y.kind = "nan" THEN NaN
        ELSE IF x.kind = "inf" \/ y.kind = "inf"
        THEN IF IsZero(x) \/ IsZero(y) THEN NaN ELSE Infinity(neg)
        ELSE RoundToDouble(neg, BigMul(x.m, y.m), x.e + y.e, FALSE)

\* 0.621371 (app.py:148)
MileFactor == DoubleOfDecimal(FALSE, BigFromInt(621371), -6)

\* round(x, 2).  The result is held in hundredths: for a finite x, the
\* natural nearest to the exact value of 100 * |x|, a tie to the even one
\* (CPython rounds the exact value of the double), with the sign of x.
Round2(x) ==
    IF x.kind # "finite"
    THEN [kind |-> x.kind, neg |-> x.neg, hundredths |-> <<>>]
    ELSE LET n == BigTrim(BigMulAdd(x.m, 100, 0))
         IN  [kind |-> "finite", neg |-> x.neg,
              hundredths |-> IF x.e >= 0 THEN BigShiftLeft(n, x.e)
                             ELSE BigRoundShift(n, -x.e, FALSE)]

\* The characters float() strips from both ends: the white space of ASCII
\* (space, \t, \n, \r, \f and U+000B) and, of the characters beyond ASCII
\* that a string of this language can hold, U+0085 and U+00A0.
Whitespace == {" ", "\t", "\n", "\r", "\f", "", "", " "}

RECURSIVE StripLeft(_)
StripLeft(text) ==
    IF text # <<>> /\ Head(text) \in Whitespace THEN StripLeft(Tail(text)) ELSE text

RECURSIVE StripRight(_)
StripRight(text) ==
    IF text # <<>> /\ text[Len(text)] \in Whitespace
    THEN StripRight(SubSeq(text, 1, Len(text) - 1))
    ELSE text

\* a decimal digit of ASCII
IsDecimal(ch) == IsIn(DigitChars, ch)

\* the place of the first character of a text that is in a set, 0 if none
FirstIn(text, set) ==
    IF \E i \in 1..Len(text) : text[i] \in set
    THEN CHOOSE i \in 1..Len(text) :
             text[i] \in set /\ \A j \in 1..(i - 1) : text[j] \notin set
    ELSE 0

\* digits, with single underscores between two digits (PEP 515)
IsDigitGroup(text) ==
    /\ text # <<>>
    /\ \A i \in 1..Len(text) :
          \/ IsDecimal(text[i])
          \/ /\ text[i] = "_"
             /\ i > 1 /\ i < Len(text)
             /\ IsDecimal(text[i - 1]) /\ IsDecimal(text[i + 1])

\* the natural written by the digits of a text
RECURSIVE BigOfDigits(_, _)
BigOfDigits(text, n) ==
    IF text = <<>> THEN BigTrim(n)
    ELSE IF IsDecimal(Head(text))
    THEN BigOfDigits(Tail(text), BigMulAdd(n, 10, IndexIn(DigitChars, Head(text)) - 1))
    ELSE BigOfDigits(Tail(text), n)

\* the integer written by the digits of an exponent, held at 100000 when it
\* is larger (every such exponent gives 0 or infinity)
RECURSIVE ExponentOfDigits(_, _)
ExponentOfDigits(text, n) ==
    IF text = <<>> THEN n
    ELSE IF IsDecimal(Head(text))
    THEN LET next == 10 * n + IndexIn(DigitChars, Head(text)) - 1
         IN  ExponentOfDigits(Tail(text), IF next > 100000 THEN 100000 ELSE next)
    ELSE ExponentOfDigits(Tail(text), n)

CountDigits(text) == Len(SelectSeq(text, IsDecimal))

\* app.py:143  float(text): ok is FALSE when float raises ValueError.  The text is
\* stripped; a sign; then "inf", "infinity" or "nan" in any case, or a
\* decimal numeral: digits, a point, digits (one of the two groups may be
\* missing), and an exponent.
Float(text) ==
    LET stripped == StripRight(StripLeft(text))
        signed == stripped # <<>> /\ Head(stripped) \in {"+", "-"}
        neg == signed /\ Head(stripped) = "-"
        body == IF signed THEN Tail(stripped) ELSE stripped
        word == Lower(body)
        ePlace == FirstIn(body, {"e", "E"})
        numeral == IF ePlace = 0 THEN body ELSE SubSeq(body, 1, ePlace - 1)
        exponent == IF ePlace = 0 THEN <<>> ELSE SubSeq(body, ePlace + 1, Len(body))
        expSigned == exponent # <<>> /\ Head(exponent) \in {"+", "-"}
        expDigits == IF expSigned THEN Tail(exponent) ELSE exponent
        expValue == IF expSigned /\ Head(exponent) = "-"
                    THEN -ExponentOfDigits(expDigits, 0)
                    ELSE ExponentOfDigits(expDigits, 0)
        point == FirstIn(numeral, {"."})
        whole == IF point = 0 THEN numeral ELSE SubSeq(numeral, 1, point - 1)
        fraction == IF point = 0 THEN <<>> ELSE SubSeq(numeral, point + 1, Len(numeral))
        wellFormed ==
            /\ whole # <<>> \/ fraction # <<>>
            /\ whole = <<>> \/ IsDigitGroup(whole)
            /\ fraction = <<>> \/ IsDigitGroup(fraction)
            /\ ePlace = 0 \/ IsDigitGroup(expDigits)
    IN  IF word = <<"n", "a", "n">> THEN [ok |-> TRUE, value |-> NaN]
        ELSE IF word \in {<<"i", "n", "f">>, <<"i", "n", "f", "i", "n", "i", "t", "y">>}
        THEN [ok |-> TRUE, value |-> Infinity(neg)]
        ELSE IF ~wellFormed THEN [ok |-> FALSE, value |-> NaN]
        ELSE [ok |-> TRUE,
              value |-> DoubleOfDecimal(neg, BigOfDigits(whole \o fraction, <<>>),
                                        expValue - CountDigits(fraction))]

\* app.py:82-93  calculate_haversine_distance, in km, as a float.  Identical
\* points give dlat = dlon = 0, so a = 0.0 and the distance is 0.0.  TLC has
\* no sin, cos or asin: for the distinct points of the model the value is
\* the float the function returns (R = 6371.0), 1710.9351583644004, which
\* is 0x1.abbbd9a277eb9p+10.
calculate_haversine_distance(lat1, lon1, lat2, lon2) ==
    IF lat1 = lat2 /\ lon1 = lon2 THEN Zero(FALSE)
    ELSE CASE <<lat1, lon1, lat2, lon2>> = <<-29912, -52912, -15942, -59942>> ->
                  Double("finite", FALSE, <<32441, 13390, 28406, 213>>, -42)
           [] <<lat1, lon1, lat2, lon2>> = <<-15942, -59942, -29912, -52912>> ->
                  Double("finite", FALSE, <<32441, 13390, 28406, 213>>, -42)

\* app.py:95-100  get_config_value
get_config_value(conf, key, default) ==
    IF \E c \in conf : c.id = key
    THEN (CHOOSE c \in conf : c.id = key).value
    ELSE default

\* app.py:147-150  if unit.lower() == "mi": distance = distance * 0.621371;
\* distance = round(distance, 2)
InUnit(distance, unit) ==
    Round2(IF Lower(unit) = <<"m", "i">> THEN FloatMul(distance, MileFactor) ELSE distance)

\* app.py:144-150  distance = round(base * multiplier [* 0.621371], 2)
ScaledDistance(base, multiplier, unit) == InUnit(FloatMul(base, multiplier), unit)

\* app.py:53-58  default_configs: key, value and name of each default
default_configs ==
    {[id |-> "direct_multiplier", value |-> <<"1", ".", "2">>,
      name |-> "Multiplicador para ajuste de distância em linha reta"],
     [id |-> "walking_multiplier", value |-> <<"1", ".", "4">>,
      name |-> "Multiplicador para ajuste de distância a pé"],
     [id |-> "driving_multiplier", value |-> <<"1", ".", "1">>,
      name |-> "Multiplicador para ajuste de distância de carro"],
     [id |-> "default_unit", value |-> <<"k", "m">>,
      name |-> "Unidade padrão para distâncias (km ou mi)"]}

\* app.py:61-64  the row of one default, written at time t
ConfigurationRow(default, t) ==
    [id |-> default.id, name |-> default.name, value |-> default.value,
     updated_at |-> t]

\* Mutant of SeedConfigurations: INSERT OR REPLACE, which puts the default
\* back over the row of the same key.
SeedConfigurations_Replacing(conf, t) ==
    {c \in conf : \A d \in default_configs : d.id # c.id}
        \cup {ConfigurationRow(d, t) : d \in default_configs}

\* app.py:60-64  INSERT OR IGNORE INTO configurations, for each default (id
\* is the PRIMARY KEY, app.py:45): a key that has a row keeps it.
SeedConfigurations(conf, t) ==
    conf \cup {ConfigurationRow(d, t) :
                  d \in {x \in default_configs : \A c \in conf : c.id # x.id}}

\* app.py:176-192  the body of the answer
CalculateResponse(id, request, o, d, distance, unit, t, n) ==
    [id |-> id,
     origin |-> [city |-> request.origin.city, state |-> request.origin.state,
                 coordinates |-> o],
     destination |-> [city |-> request.destination.city,
                      state |-> request.destination.state, coordinates |-> d],
     distance |-> distance, unit |-> unit, mode |-> request.mode, created_at |-> t,
     reading |-> n]

\* app.py:155-173  the row written to calculations: its timestamp is the
\* one read at app.py:152, of half day t and reading n
CalculationRow(id, request, distance, unit, t, n) ==
    [id |-> id,
     origin_city |-> request.origin.city, origin_state |-> request.origin.state,
     origin_address |-> request.origin.address,
     destination_city |-> request.destination.city,
     destination_state |-> request.destination.state,
     destination_address |-> request.destination.address,
     mode |-> request.mode, distance |-> distance, unit |-> unit, created_at |-> t,
     reading |-> n]

\* Mutant of InsertCalculation: the row is not written.
InsertCalculation_Skipped(table, row) == table

\* The value a REAL column gives back for a float bound to it: SQLite keeps
\* a float that is a whole number as an integer, which has no negative
\* zero, so -0.0 reads back as 0.0; every other float reads back as bound.
StoredReal(x) ==
    IF x.kind = "finite" /\ x.hundredths = <<>> THEN [x EXCEPT !.neg = FALSE] ELSE x

\* app.py:154-174  INSERT INTO calculations: the row as it reads back
InsertCalculation(table, row) ==
    table \cup {[row EXCEPT !.distance = StoredReal(row.distance)]}

\* app.py:143  the read of the multiplier and float() of it: ok is FALSE
\* when float raises ValueError.  The default is the float 1.0.
ReadMultiplier(conf, mode) ==
    Float(get_config_value(conf, mode \o "_multiplier", <<"1", ".", "0">>))

\* app.py:136-137  the point of one side of the request
PointOf(side) == get_coordinates(side.city, side.state, side.address)

\* app.py:141  base_distance
BaseDistance(o, d) == calculate_haversine_distance(o[1], o[2], d[1], d[2])

\* app.py:141-150  the distance of a request, for the multiplier and the
\* unit read
RequestDistance(request, multiplier, unit) ==
    ScaledDistance(BaseDistance(PointOf(request.origin), PointOf(request.destination)),
                   multiplier, unit)

\* app.py:154-194  the INSERT of the row and the answer, for a distance
\* computed.  A distance that is nan is bound as NULL and refused by the
\* column (NOT NULL, app.py:37): the INSERT raises.  An infinite distance is
\* stored, and the answer cannot be written as JSON: the row stays and the
\* status is 500.
StoreResult(request, o, d, distance, unit, table, id, t, n) ==
    IF distance.kind = "nan"
    THEN [status |-> 500, body |-> NoBody, calculations |-> table]
    ELSE IF distance.kind = "inf"
    THEN [status |-> 500, body |-> NoBody,
          calculations |->
              InsertCalculation(table, CalculationRow(id, request, distance, unit, t, n))]
    ELSE [status |-> 200,
          body |-> CalculateResponse(id, request, o, d, distance, unit, t, n),
          calculations |->
              InsertCalculation(table, CalculationRow(id, request, distance, unit, t, n))]

\* app.py:154-194  the INSERT and the answer of a request
StoreRequest(request, distance, unit, table, id, t, n) ==
    StoreResult(request, PointOf(request.origin), PointOf(request.destination),
                distance, unit, table, id, t, n)

(***************************************************************************)
(* State.                                                                  *)
(***************************************************************************)
VARIABLES
    now,           \* datetime.datetime.now(), in units of 1/UnitsPerDay day
    ticks,         \* clock advances so far
    addresses,     \* table addresses of api-principal (a set of rows)
    history,       \* table history of api-principal (a set of rows)
    nextId,        \* uuid4 of api-principal: the ids given so far
    remoteCalls,   \* GET requests sent to ViaCEP so far
    calculations,  \* table calculations of api-secundaria (a set of rows)
    configurations,\* table configurations of api-secundaria (a set of rows)
    nextCalcId,    \* uuid4 of api-secundaria: the ids given so far
    calls,         \* handler calls started so far
    answers,       \* answers given to callers so far
    last,          \* the last answer: its call, its input and its steps
    inflight       \* the calls that take more than one step, in the order
                   \* they started: where each one is, and its locals

vars == <<now, ticks, addresses, history, nextId, remoteCalls,
          calculations, configurations, nextCalcId, calls, answers, last, inflight>>

principal == <<addresses, history, nextId>>
secundaria == <<calculations, configurations, nextCalcId>>

\* An answer of a handler, and when it was given.  status 200 is a return;
\* any other status is the HTTPException raised (detail is its message) or,
\* for 500, an exception the handler does not catch.
Answer(op, input, status, detail, body, steps) ==
    [op |-> op, input |-> input, at |-> now, status |-> status, detail |-> detail,
     body |-> body, steps |-> steps]

\* A step a handler took: "select" (the read of addresses), "viacep" (a
\* request to ViaCEP: arg is the code sent, result the answer), "upsert",
\* "engine" (the request to api-secundaria: result is its fate), "history".
Step(name, arg, result) == [step |-> name, arg |-> arg, result |-> result]

\* A call of get_address: pc is where it is ("awaiting": suspended at
\* main.py:152; "closing": it has its answer and is suspended in the exit
\* of async with, main.py:151; "done"), cep the code after main.py:133,
\* answer and data what ViaCEP gave it, wrote and row what it upserted,
\* order the rank of that write among the writes, at the time it read at
\* main.py:164, status, detail and body its answer.
Request(cep_in) ==
    [op |-> "get_address", input |-> [cep |-> cep_in], pc |-> "awaiting",
     cep |-> StripNonDigits(cep_in), answer |-> "", data |-> NoBody,
     wrote |-> FALSE, row |-> NoBody, order |-> 0, at |-> now, status |-> 0,
     detail |-> "", body |-> NoBody, steps |-> <<>>]

\* The calls in the order they started.
Started == 1..Len(inflight)

\* A call with its answer, at the place pc.
Settled(call, pc, status, detail, body) ==
    [call EXCEPT !.pc = pc, !.status = status, !.detail = detail, !.body = body]

\* The answer of a call that ends.
Reply(call) ==
    Answer(call.op, call.input, call.status, call.detail, call.body, call.steps)

\* A call that has its answer ends: its answer is the last one.
Return(r, call) ==
    /\ inflight' = [inflight EXCEPT ![r] = [call EXCEPT !.pc = "done"]]
    /\ last' = Reply(call)
    /\ answers' = answers + 1

\* A call that starts ends in its first step.
ReturnAtOnce(call, status, detail, body) ==
    /\ inflight' = Append(inflight, Settled(call, "done", status, detail, body))
    /\ last' = Reply(Settled(call, "done", status, detail, body))
    /\ answers' = answers + 1

\* A call goes on to its next await, or to its next statement.
Continue(r, call) ==
    /\ inflight' = [inflight EXCEPT ![r] = call]
    /\ UNCHANGED <<last, answers>>

\* A call of api-principal has its answer, inside async with: the client
\* is closed before the answer is given.
Close(r, call, status, detail, body) ==
    Continue(r, Settled(call, "closing", status, detail, body))

\* main.py:151, 203  the exit of async with httpx.AsyncClient(): the call
\* of handler op, suspended while the client closes, gives its answer
ExitClient(r, op) ==
    /\ inflight[r].op = op
    /\ inflight[r].pc = "closing"
    /\ Return(r, inflight[r])
    /\ UNCHANGED <<now, ticks, principal, secundaria, remoteCalls, calls>>

Init ==
    /\ now = 0
    /\ ticks = 0
    /\ addresses = {}
    /\ history = {}
    /\ nextId = 0
    /\ remoteCalls = 0
    /\ calculations = {}
    /\ configurations = SeedConfigurations({}, 0)
    /\ nextCalcId = 0
    /\ calls = 0
    /\ answers = 0
    /\ last = Answer("none", [none |-> TRUE], 0, "", NoBody, <<>>)
    /\ inflight = <<>>

(***************************************************************************)
(* main.py:130-198  GET /address/{cep}                                     *)
(*                                                                         *)
(* A call runs to the request to ViaCEP (main.py:152), where it is         *)
(* suspended; when the answer is there it upserts the row and commits      *)
(* (main.py:154-182), inserts the history entry and commits                *)
(* (main.py:185-196) and reaches its return (main.py:198) with no await on *)
(* the way.  The return, and the raises of main.py:155 and 160, are inside *)
(* async with (main.py:151): the call is suspended once more while the     *)
(* client closes, and then gives its answer.  Other calls run while it is  *)
(* suspended.                                                              *)
(***************************************************************************)
\* The writes so far.
Writes == {r \in Started : inflight[r].op = "get_address" /\ inflight[r].wrote}

\* main.py:131-152  from the start to the request to ViaCEP
begin_get_address(cep_in) ==
    LET call == Request(cep_in)
        cep == call.cep
        result == SelectAddress(addresses, cep)
        cached == CHOOSE row \in result : TRUE
        read == [call EXCEPT !.steps = <<Step("select", cep, "")>>]
    IN
    /\ calls' = calls + 1
    /\ UNCHANGED <<now, ticks, principal, secundaria>>
    /\ IF ~ValidLength(cep)
       THEN \* main.py:135-136
            /\ ReturnAtOnce(call, 400, "CEP deve conter 8 dígitos", NoBody)
            /\ UNCHANGED remoteCalls
       ELSE IF result # {} /\ IsFresh(cached.last_updated, now)
       THEN \* main.py:142-148
            /\ ReturnAtOnce(read, 200, "", Address(cached))
            /\ UNCHANGED remoteCalls
       ELSE \* main.py:151-152
            /\ inflight' = Append(inflight, read)
            /\ remoteCalls' = remoteCalls + 1
            /\ UNCHANGED <<last, answers>>

\* main.py:152-198  from the answer of ViaCEP to the return or the raise:
\* the upsert and its commit, the history entry and its commit
resume_get_address(r, answer) ==
    LET call == inflight[r]
        cep == call.cep
        data == ViaCepPayload(cep, answer)
        row == AddressRow(data, now)
        entry == HistoryRow(nextId + 1, "address_query", [cep |-> cep], data, now)
        asked == [call EXCEPT !.answer = answer, !.at = now,
                              !.steps = @ \o <<Step("viacep", cep, answer)>>]
        written == [asked EXCEPT !.data = data, !.wrote = TRUE, !.row = row,
                                 !.order = Cardinality(Writes) + 1,
                                 !.steps = @ \o <<Step("upsert", row.cep, ""),
                                                  Step("history", cep, "")>>]
        Fail(status, detail) ==
            /\ Close(r, asked, status, detail, NoBody)
            /\ UNCHANGED <<addresses, history, nextId>>
    IN
    /\ call.op = "get_address"
    /\ call.pc = "awaiting"
    /\ UNCHANGED <<now, ticks, remoteCalls, secundaria, calls>>
    /\ IF answer = "exception"
       THEN \* client.get raises: nothing catches it
            Fail(500, "Internal Server Error")
       ELSE IF ViaCepStatus(answer) # 200
       THEN \* main.py:154-155
            Fail(ViaCepStatus(answer), "Erro ao consultar ViaCEP")
       ELSE IF HasErro(data)
       THEN \* main.py:159-160
            Fail(404, "CEP não encontrado")
       ELSE \* main.py:163-198
            /\ addresses' = InsertOrReplace(addresses, row)
            /\ history' = InsertHistory(history, entry)
            /\ nextId' = nextId + 1
            /\ IF AddressValid(data)
               THEN Close(r, written, 200, "", Address(data))
               ELSE \* Address(**data) raises a ValidationError
                    Close(r, written, 500, "Internal Server Error", NoBody)

\* main.py:151-198  the call gives its answer when the client is closed
return_get_address(r) == ExitClient(r, "get_address")

(***************************************************************************)
(* api-secundaria: its handlers are plain functions, which the server runs *)
(* in worker threads.  A thread can be overtaken by another one between    *)
(* any two statements: a call takes one step for each read of the          *)
(* database or of the clock, one for each write with its commit, and one   *)
(* for its return.                                                         *)
(***************************************************************************)
\* A call of api-secundaria has its answer: pc is "return".
Returning(call, status, detail, body) == Settled(call, "return", status, detail, body)

\* The return of a handler of api-secundaria.  The answer of a computation
\* that api-principal asked for goes to the call that asked, not to a
\* client.
return_secondary(j) ==
    LET call == inflight[j]
    IN
    /\ call.op \in {"calculate", "get_calculations", "update_configuration",
                   "delete_calculation"}
    /\ call.pc = "return"
    /\ IF call.op = "calculate" /\ call.caller # 0
       THEN Continue(j, [call EXCEPT !.pc = "done"])
       ELSE Return(j, call)
    /\ UNCHANGED <<now, ticks, principal, secundaria, remoteCalls, calls>>

(***************************************************************************)
(* app.py:129-194  POST /calculate                                         *)
(*                                                                         *)
(* The handler reads the multiplier on one connection (app.py:143), the    *)
(* unit on another (app.py:145) and the clock (app.py:152), and writes its *)
(* row on a third connection (app.py:154-174).                             *)
(***************************************************************************)
\* main.py:225-229 and 230-234  one side of the payload
Descriptor(data) ==
    [city |-> data["localidade"], state |-> data["uf"],
     address |-> data["logradouro"] \o <<",", " ">> \o data["bairro"]]

\* The descriptors the model sends: the two addresses of the directory.
DescriptorSP == Descriptor(ViaCepDirectory(CepA))
DescriptorRJ == Descriptor(ViaCepDirectory(CepB))

\* app.py:108-111  CalculateRequest
CalculateRequest(origin, destination, mode) ==
    [origin |-> origin, destination |-> destination, mode |-> mode]

\* The requests the model sends: identical and distinct descriptors, with a
\* mode that has a multiplier ("driving") and one that has none ("cycling").
CalculateInputs ==
    {CalculateRequest(DescriptorSP, DescriptorSP, "driving"),
     CalculateRequest(DescriptorSP, DescriptorRJ, "driving"),
     CalculateRequest(DescriptorRJ, DescriptorRJ, "cycling")}

\* A call of the engine: caller is the call of calculate_distance of
\* api-principal that sent the request, 0 when a client sent it.  pc is
\* "start" (nothing is read), "multiplier" (app.py:143 is done), "unit"
\* (app.py:145-150), "clock" (app.py:151-152), "return" (the row is written
\* and the answer built, or the call has failed) or "done"; multiplier,
\* unit, distance and created_at are its locals; reading is the number of
\* its reading of the clock among those of the engine, 0 before it.
Calculation(request, caller) ==
    [op |-> "calculate", input |-> request, caller |-> caller, pc |-> "start",
     multiplier |-> Zero(FALSE), unit |-> <<>>, distance |-> NoBody,
     created_at |-> 0, reading |-> 0, status |-> 0, detail |-> "", body |-> NoBody, steps |-> <<>>]

\* A computation that has its answer.
Computed(job, status, body) ==
    Returning(job, status, IF status = 200 THEN "" ELSE "Internal Server Error", body)

\* app.py:129  a client asks the engine
begin_secondary_calculate(request) ==
    /\ calls' = calls + 1
    /\ inflight' = Append(inflight, Calculation(request, 0))
    /\ UNCHANGED <<now, ticks, principal, remoteCalls, secundaria, last, answers>>

\* app.py:130-143  from the start to the read of the multiplier; float()
\* of a value that is no number raises ValueError
multiplier_secondary_calculate(j) ==
    LET job == inflight[j]
    IN
    /\ job.op = "calculate"
    /\ job.pc = "start"
    /\ \E read \in {ReadMultiplier(configurations, job.input.mode)} :
          Continue(j, IF read.ok
                      THEN [job EXCEPT !.pc = "multiplier", !.multiplier = read.value]
                      ELSE Computed(job, 500, NoBody))
    /\ UNCHANGED <<now, ticks, principal, remoteCalls, secundaria, calls>>

\* app.py:144-150  the read of the unit, and the distance
unit_secondary_calculate(j) ==
    LET job == inflight[j]
    IN
    /\ job.op = "calculate"
    /\ job.pc = "multiplier"
    /\ \E unit \in {get_config_value(configurations, "default_unit", <<"k", "m">>)} :
       \E distance \in {RequestDistance(job.input, job.multiplier, unit)} :
          Continue(j, [job EXCEPT !.pc = "unit", !.unit = unit, !.distance = distance])
    /\ UNCHANGED <<now, ticks, principal, remoteCalls, secundaria, calls>>

\* app.py:151-152  the read of the clock, which has run since the readings
\* before this one
clock_secondary_calculate(j) ==
    LET job == inflight[j]
        earlier == {i \in Started : inflight[i].op = "calculate"
                                      /\ inflight[i].reading > 0}
    IN
    /\ job.op = "calculate"
    /\ job.pc = "unit"
    /\ Continue(j, [job EXCEPT !.pc = "clock", !.created_at = now,
                                !.reading = Cardinality(earlier) + 1])
    /\ UNCHANGED <<now, ticks, principal, remoteCalls, secundaria, calls>>

\* app.py:154-192  the INSERT of the row with its commit, and the answer
insert_secondary_calculate(j) ==
    LET job == inflight[j]
    IN
    /\ job.op = "calculate"
    /\ job.pc = "clock"
    /\ \E calc \in {StoreRequest(job.input, job.distance, job.unit, calculations,
                                 nextCalcId + 1, job.created_at, job.reading)} :
          /\ calculations' = calc.calculations
          /\ nextCalcId' = IF calc.calculations # calculations
                           THEN nextCalcId + 1 ELSE nextCalcId
          /\ Continue(j, Computed(job, calc.status, calc.body))
    /\ UNCHANGED <<now, ticks, principal, remoteCalls, configurations, calls>>

(***************************************************************************)
(* app.py:206-225  PUT /configurations                                     *)
(***************************************************************************)
\* A value of the map sent (configurations: dict, app.py:114, takes every
\* JSON value): a string, a number with one decimal (held in tenths), or an
\* integer.
JsonText(text) == [type |-> "str", text |-> text]
JsonNumber(tenths) == [type |-> "float", tenths |-> tenths]

\* the decimal numeral of a natural
RECURSIVE DecimalText(_)
DecimalText(n) ==
    IF n < 10 THEN <<DigitChars[n + 1]>>
    ELSE DecimalText(n \div 10) \o <<DigitChars[(n % 10) + 1]>>

\* app.py:217  str(value): a string is itself, a float and an int are
\* written as Python writes them ("1.5", "-1.0", "2").
Str(value) ==
    CASE value.type = "str" -> value.text
      [] value.type = "float" ->
             LET magnitude == IF value.tenths < 0 THEN -value.tenths ELSE value.tenths
             IN  (IF value.tenths < 0 THEN <<"-">> ELSE <<>>)
                     \o DecimalText(magnitude \div 10) \o <<".">>
                     \o DecimalText(magnitude % 10)
      [] value.type = "int" ->
             (IF value.n < 0 THEN <<"-">> ELSE <<>>)
                 \o DecimalText(IF value.n < 0 THEN -value.n ELSE value.n)

\* The maps the model sends: none, one key that has a row (a negative
\* multiplier, a multiplier that is no number, one that is infinite, the
\* other unit), two keys that have a row (the two a computation reads, the
\* multiplier written as text after a no-break space, U+00A0), one key that
\* has no row, and both kinds together.
ConfigurationMaps ==
    {<<>>,
     [driving_multiplier |-> JsonNumber(-10)],
     [driving_multiplier |-> JsonText(<<"a", "b", "c">>)],
     [driving_multiplier |-> JsonText(<<"i", "n", "f">>)],
     [default_unit |-> JsonText(<<"m", "i">>)],
     [driving_multiplier |-> JsonText(<<" ", "1", ".", "5">>),
      default_unit |-> JsonText(<<"m", "i">>)],
     [cycling_multiplier |-> JsonNumber(15)],
     [driving_multiplier |-> JsonNumber(15), cycling_multiplier |-> [type |-> "int", n |-> 2]]}

\* Mutant of UpdatedKeys: every key sent counts as updated.
UpdatedKeys_AllSent(conf, map) == DOMAIN map

\* app.py:212-219  updated_configs: the keys sent that have a row
UpdatedKeys(conf, map) == {key \in DOMAIN map : \E c \in conf : c.id = key}

\* Mutant of UpdateConfigurations: a key sent that has no row is inserted.
UpdateConfigurations_Upsert(conf, map, t) ==
    {IF c.id \in DOMAIN map
     THEN [c EXCEPT !.value = Str(map[c.id]), !.updated_at = t]
     ELSE c : c \in conf}
        \cup {[id |-> key, name |-> "", value |-> Str(map[key]), updated_at |-> t] :
                key \in {k \in DOMAIN map : \A c \in conf : c.id # k}}

\* app.py:212-220  UPDATE configurations SET value = ?, updated_at = ? WHERE
\* id = ?, for each key sent that has a row
UpdateConfigurations(conf, map, t) ==
    {IF c.id \in DOMAIN map
     THEN [c EXCEPT !.value = Str(map[c.id]), !.updated_at = t]
     ELSE c : c \in conf}

\* A call of update_configuration: pc is "clock" (past the read of the
\* clock, app.py:209), "return" or "done"; timestamp is the time it read.
Update(map, t) ==
    [op |-> "update_configuration", input |-> [configurations |-> map],
     pc |-> "clock", timestamp |-> t, status |-> 0, detail |-> "", body |-> NoBody,
     steps |-> <<>>]

\* app.py:207-209  from the start to the read of the clock
begin_update_configuration(map) ==
    /\ calls' = calls + 1
    /\ inflight' = Append(inflight, Update(map, now))
    /\ UNCHANGED <<now, ticks, principal, remoteCalls, secundaria, last, answers>>

\* app.py:211-225  the writes, with the time read before, and the answer.
\* The handler writes on one connection and commits once (app.py:220): the
\* other calls see its writes all at once.
update_configuration(r) ==
    LET call == inflight[r]
        map == call.input.configurations
        updated_configs == UpdatedKeys(configurations, map)
    IN
    /\ call.op = "update_configuration"
    /\ call.pc = "clock"
    /\ configurations' = UpdateConfigurations(configurations, map, call.timestamp)
    /\ IF updated_configs = {}
       THEN \* app.py:222-223
            Continue(r, Returning(call, 400,
                                  "Nenhuma configuração válida foi fornecida", NoBody))
       ELSE Continue(r, Returning(call, 200, "",
                                  [updated |-> updated_configs,
                                   timestamp |-> call.timestamp]))
    /\ UNCHANGED <<now, ticks, principal, remoteCalls, calculations, nextCalcId, calls>>

(***************************************************************************)
(* main.py:200-274  POST /distances                                        *)
(*                                                                         *)
(* The call is suspended at the two requests to ViaCEP (main.py:205, 213)  *)
(* and at the request to the distance engine (main.py:239).  While it is   *)
(* suspended there the request may reach api-secundaria, whose handler     *)
(* then runs and answers; or httpx raises (no connection, or no answer in  *)
(* the five seconds the client waits); or what stands between the two      *)
(* services answers in the engine's place.  The last two can happen        *)
(* before the request has reached the engine, and after, when the engine   *)
(* goes on and its answer is lost.  The whole body is inside async with    *)
(* (main.py:203): once the call has its answer it is suspended while the   *)
(* client closes, and then gives the answer.                               *)
(***************************************************************************)
\* calc_response.status_code and calc_response.text of the answers that are
\* not the engine's: the code forwards both as they come (main.py:241-245).
GatewayAnswers ==
    {[status |-> 502, text |-> "Bad Gateway"],
     [status |-> 503, text |-> "Service Unavailable"],
     [status |-> 504, text |-> "Gateway Timeout"]}

\* main.py:242-245  f"Erro ao calcular distância: {calc_response.text}"
EngineDetail(text) == "Erro ao calcular distância: " \o text

\* The requests the model asks a distance with: origin, destination, mode
\* ("driving" has a configured multiplier, "cycling" has none).
TripInputs ==
    {<<CepA, CepB, "driving">>, <<CepAHyphen, CepB, "cycling">>,
     <<CepSevenDigits, CepB, "driving">>, <<CepA, CepNineDigits, "driving">>}

\* The answers of ViaCEP the model gives to a call of calculate_distance:
\* those of ViaCepAnswers, with one of the statuses that are not 200.
TripAnswers == {"ok", "ok_partial", "erro", "503", "exception"}

\* main.py:226-233  the keys the payload is built from (a missing one is a
\* KeyError)
PayloadKeys == {"localidade", "uf", "logradouro", "bairro"}

\* main.py:266-272  DistanceResponse(...)
DistanceResponse(origin_data, dest_data, distance_data, travel_mode) ==
    [origin |-> Address(origin_data), destination |-> Address(dest_data),
     distance |-> distance_data.distance, unit |-> distance_data.unit,
     travel_mode |-> travel_mode]

\* A call of calculate_distance: pc is "origin" (suspended at main.py:205),
\* "destination" (at main.py:213), "engine" (at main.py:239), "closing" (it
\* has its answer and is suspended in the exit of async with, main.py:203)
\* or "done"; job is the call of the engine that works for it.
Trip(request) ==
    [op |-> "calculate_distance", input |-> request, pc |-> "origin",
     origin_data |-> NoBody, dest_data |-> NoBody, job |-> 0, status |-> 0,
     detail |-> "", body |-> NoBody, steps |-> <<>>]

\* main.py:201-205  from the start to the request to ViaCEP for the origin
begin_calculate_distance(origin_cep, destination_cep, travel_mode) ==
    LET request == [origin_cep |-> origin_cep, destination_cep |-> destination_cep,
                    travel_mode |-> travel_mode]
    IN
    /\ calls' = calls + 1
    /\ inflight' = Append(inflight, Trip(request))
    /\ remoteCalls' = remoteCalls + 1
    /\ UNCHANGED <<now, ticks, principal, secundaria, last, answers>>

\* main.py:205-213  from the answer about the origin to the request to
\* ViaCEP for the destination
origin_calculate_distance(r, answer) ==
    LET call == inflight[r]
        origin_data == ViaCepPayload(call.input.origin_cep, answer)
        asked == [call EXCEPT !.steps =
                      @ \o <<Step("viacep", call.input.origin_cep, answer)>>]
        Fail(status, detail) ==
            /\ Close(r, asked, status, detail, NoBody)
            /\ UNCHANGED remoteCalls
    IN
    /\ call.op = "calculate_distance"
    /\ call.pc = "origin"
    /\ UNCHANGED <<now, ticks, principal, secundaria, calls>>
    /\ IF answer = "exception"
       THEN \* main.py:205 raises
            Fail(500, "Internal Server Error")
       ELSE IF ViaCepStatus(answer) # 200
       THEN \* main.py:206-207
            Fail(ViaCepStatus(answer), "Erro ao consultar endereço de origem")
       ELSE IF HasErro(origin_data)
       THEN \* main.py:209-210
            Fail(404, "CEP de origem não encontrado")
       ELSE \* main.py:213
            /\ Continue(r, [asked EXCEPT !.pc = "destination",
                                         !.origin_data = origin_data])
            /\ remoteCalls' = remoteCalls + 1

\* main.py:213-239  from the answer about the destination to the request to
\* the engine, which is on its way when the call is suspended
destination_calculate_distance(r, answer) ==
    LET call == inflight[r]
        origin_data == call.origin_data
        dest_data == ViaCepPayload(call.input.destination_cep, answer)
        asked == [call EXCEPT !.steps =
                      @ \o <<Step("viacep", call.input.destination_cep, answer)>>]
        Fail(status, detail) == Close(r, asked, status, detail, NoBody)
    IN
    /\ call.op = "calculate_distance"
    /\ call.pc = "destination"
    /\ UNCHANGED <<now, ticks, principal, secundaria, remoteCalls, calls>>
    /\ IF answer = "exception"
       THEN \* main.py:213 raises
            Fail(500, "Internal Server Error")
       ELSE IF ViaCepStatus(answer) # 200
       THEN \* main.py:214-215
            Fail(ViaCepStatus(answer), "Erro ao consultar endereço de destino")
       ELSE IF HasErro(dest_data)
       THEN \* main.py:217-218
            Fail(404, "CEP de destino não encontrado")
       ELSE IF ~(PayloadKeys \subseteq DOMAIN origin_data
                 /\ PayloadKeys \subseteq DOMAIN dest_data)
       THEN \* main.py:224-236 raises KeyError
            Fail(500, "Internal Server Error")
       ELSE \* main.py:239
            Continue(r, [asked EXCEPT !.pc = "engine", !.dest_data = dest_data,
                                      !.steps = @ \o <<Step("engine", <<>>, "sent")>>])

\* main.py:224-239, app.py:129  the request reaches api-secundaria, whose
\* handler starts; the call stays suspended
engine_calculate_distance(r) ==
    LET call == inflight[r]
        payload == [origin |-> Descriptor(call.origin_data),
                    destination |-> Descriptor(call.dest_data),
                    mode |-> call.input.travel_mode]
    IN
    /\ call.op = "calculate_distance"
    /\ call.pc = "engine"
    /\ call.job = 0
    /\ inflight' = Append([inflight EXCEPT ![r].job = Len(inflight) + 1],
                          Calculation(payload, r))
    /\ UNCHANGED <<now, ticks, principal, secundaria, remoteCalls, calls, last, answers>>

\* The call suspended at main.py:239 with the outcome of its request.
Waited(call, outcome) ==
    [call EXCEPT !.steps[Len(call.steps)] = Step("engine", <<>>, outcome)]

\* main.py:239  client.post raises (httpx.ConnectError, httpx.ReadTimeout):
\* nothing catches it.  The engine, if the request reached it, goes on.
raise_calculate_distance(r) ==
    LET call == inflight[r]
    IN
    /\ call.op = "calculate_distance"
    /\ call.pc = "engine"
    /\ Close(r, Waited(call, "exception"), 500, "Internal Server Error", NoBody)
    /\ UNCHANGED <<now, ticks, principal, secundaria, remoteCalls, calls>>

\* main.py:239-245  the answer is not the engine's and its status is not
\* 200: the status and the text are forwarded
gateway_calculate_distance(r, answer) ==
    LET call == inflight[r]
    IN
    /\ call.op = "calculate_distance"
    /\ call.pc = "engine"
    /\ Close(r, Waited(call, "status"), answer.status, EngineDetail(answer.text), NoBody)
    /\ UNCHANGED <<now, ticks, principal, secundaria, remoteCalls, calls>>

\* main.py:239-274  from the answer of the engine to the return or the
\* raise
finish_calculate_distance(r) ==
    LET call == inflight[r]
        job == inflight[call.job]
        answered == Waited(call, IF job.status = 200 THEN "ok" ELSE "status")
        distance_data == job.body
        entry == HistoryRow(nextId + 1, "distance_calculation", call.input,
                            distance_data, now)
        written == [answered EXCEPT !.steps = @ \o <<Step("history", <<>>, "")>>]
    IN
    /\ call.op = "calculate_distance"
    /\ call.pc = "engine"
    /\ call.job # 0
    /\ job.pc = "done"
    /\ UNCHANGED <<now, ticks, addresses, secundaria, remoteCalls, calls>>
    /\ IF job.status # 200
       THEN \* main.py:241-245
            /\ Close(r, answered, job.status, EngineDetail(job.detail), NoBody)
            /\ UNCHANGED <<history, nextId>>
       ELSE \* main.py:247-274
            /\ history' = InsertHistory(history, entry)
            /\ nextId' = nextId + 1
            /\ IF AddressValid(call.origin_data) /\ AddressValid(call.dest_data)
               THEN Close(r, written, 200, "",
                          DistanceResponse(call.origin_data, call.dest_data,
                                           distance_data, call.input.travel_mode))
               ELSE \* Address(**origin_data) raises a ValidationError
                    Close(r, written, 500, "Internal Server Error", NoBody)

\* main.py:203-274  the call gives its answer when the client is closed
return_calculate_distance(r) == ExitClient(r, "calculate_distance")

(***************************************************************************)
(* The clock, and api-principal with both its handlers and the engine      *)
(* that works for calculate_distance.                                      *)
(***************************************************************************)
\* main.py:147  datetime.datetime.now(): the clock moves on
Tick(d) ==
    /\ ticks < MaxTicks
    /\ ticks' = ticks + 1
    /\ now' = now + d
    /\ UNCHANGED <<principal, secundaria, remoteCalls, calls, answers, last, inflight>>

Next ==
    \* get_address with the code of the origin of the trips (every way of
    \* writing a code is an input of SpecAddress).
    \/ calls < MaxCalls /\ begin_get_address(CepA)
    \/ \E r \in Started : \E answer \in ViaCepAnswers : resume_get_address(r, answer)
    \/ \E r \in Started : return_get_address(r)
    \/ calls < MaxCalls /\ Cardinality({r \in Started : inflight[r].op = "calculate_distance"}) < MaxTrips
         /\ \E trip \in TripInputs : begin_calculate_distance(trip[1], trip[2], trip[3])
    \/ \E r \in Started : \E answer \in TripAnswers : origin_calculate_distance(r, answer)
    \/ \E r \in Started : \E answer \in TripAnswers : destination_calculate_distance(r, answer)
    \/ \E r \in Started : engine_calculate_distance(r)
    \/ \E r \in Started : raise_calculate_distance(r)
    \/ \E r \in Started : \E answer \in GatewayAnswers : gateway_calculate_distance(r, answer)
    \/ \E r \in Started : finish_calculate_distance(r)
    \/ \E r \in Started : return_calculate_distance(r)
    \/ \E j \in Started : multiplier_secondary_calculate(j)
    \/ \E j \in Started : unit_secondary_calculate(j)
    \/ \E j \in Started : clock_secondary_calculate(j)
    \/ \E j \in Started : insert_secondary_calculate(j)
    \* update_configuration with the maps that change what a trip is answered
    \* (every map is an input of SpecEngine).
    \/ calls < MaxCalls
         /\ \E map \in {m \in ConfigurationMaps :
                            "default_unit" \in DOMAIN m
                               \/ m = [driving_multiplier |-> JsonText(<<"i", "n", "f">>)]} :
                begin_update_configuration(map)
    \/ \E j \in Started : update_configuration(j)
    \/ \E j \in Started : return_secondary(j)
    \/ Tick(1)

Spec == Init /\ [][Next]_vars

(***************************************************************************)
(* main.py:130-198  GET /address/{cep} alone, with the clock advancing to  *)
(* the ages at the freshness boundary.                                     *)
(***************************************************************************)
NextAddress ==
    \/ calls < MaxCalls /\ \E cep \in CepInputs : begin_get_address(cep)
    \/ \E r \in Started : \E answer \in ViaCepAnswers : resume_get_address(r, answer)
    \/ \E r \in Started : return_get_address(r)
    \* One unit, the freshness window, and one unit less than the window:
    \* the ages just below and at the freshness boundary.
    \/ \E d \in {1, FreshDays * UnitsPerDay - 1, FreshDays * UnitsPerDay} : Tick(d)

SpecAddress == Init /\ [][NextAddress]_vars

(***************************************************************************)
(* app.py:25-69  init_db, run each time api-secundaria starts              *)
(***************************************************************************)
init_db ==
    /\ calls' = calls + 1
    /\ answers' = answers + 1
    /\ configurations' = SeedConfigurations(configurations, now)
    /\ last' = Answer("init_db", [none |-> TRUE], 200, "", NoBody, <<>>)
    /\ UNCHANGED <<now, ticks, inflight, principal, remoteCalls, calculations, nextCalcId>>

(***************************************************************************)
(* The lists and the deletes of both services: main.py:276-308 (history)   *)
(* and app.py:196-204, 227-235 (calculations).                             *)
(***************************************************************************)
\* ORDER BY created_at DESC.  The column holds the timestamps the clock
\* gave (main.py:164, 250, app.py:152), which differ from one reading to the
\* next: rows of the same half day come out with the one of the later
\* reading first.
RECURSIVE OrderByCreatedAtDesc(_)
OrderByCreatedAtDesc(table) ==
    IF table = {} THEN <<>>
    ELSE LET first == CHOOSE r \in table : \A o \in table \ {r} :
                          \/ r.created_at > o.created_at
                          \/ r.created_at = o.created_at /\ r.reading > o.reading
         IN  <<first>> \o OrderByCreatedAtDesc(table \ {first})

\* LIMIT ? OFFSET ?: a negative OFFSET skips nothing, a negative LIMIT is no
\* limit.
LimitOffset(rows, limit, offset) ==
    LET skipped == IF offset < 0 THEN 0 ELSE offset
        rest == SubSeq(rows, skipped + 1, Len(rows))
    IN  IF limit < 0 \/ limit >= Len(rest) THEN rest ELSE SubSeq(rest, 1, limit)

\* main.py:279-282 and app.py:199-202  SELECT * ... ORDER BY created_at DESC
\* LIMIT ? OFFSET ?
SelectPage(table, limit, offset) == LimitOffset(OrderByCreatedAtDesc(table), limit, offset)

\* The pages the model asks for: limit and offset (skip).
PageInputs == {<<-1, 0>>, <<1, 1>>}

\* main.py:276-295  GET /history
get_history(limit, skip) ==
    /\ calls' = calls + 1
    /\ answers' = answers + 1
    /\ last' = Answer("get_history", [limit |-> limit, skip |-> skip], 200, "",
                      [items |-> SelectPage(history, limit, skip)], <<>>)
    /\ UNCHANGED <<now, ticks, inflight, principal, remoteCalls, secundaria>>

\* A call of get_calculations past its SELECT.  The server writes the list
\* returned as JSON, and answers 500 when it cannot: json.dumps(allow_nan =
\* False) writes a list without an infinite distance (a stored distance is
\* never nan).
Listing(limit, offset, items) ==
    LET renders == \A i \in 1..Len(items) : items[i].distance.kind # "inf"
    IN
    Returning([op |-> "get_calculations", input |-> [limit |-> limit, offset |-> offset],
               pc |-> "return", status |-> 0, detail |-> "", body |-> NoBody,
               steps |-> <<>>],
              IF renders THEN 200 ELSE 500,
              IF renders THEN "" ELSE "Internal Server Error",
              IF renders THEN [items |-> items] ELSE NoBody)

\* app.py:196-204  GET /calculations: the SELECT
get_calculations(limit, offset) ==
    /\ calls' = calls + 1
    /\ inflight' = Append(inflight,
                          Listing(limit, offset, SelectPage(calculations, limit, offset)))
    /\ UNCHANGED <<now, ticks, principal, remoteCalls, secundaria, last, answers>>

\* main.py:305 and app.py:233  DELETE FROM ... WHERE id = ?
DeleteById(table, id) == {r \in table : r.id # id}

\* The ids the model asks to delete: the first two that are given.
DeleteInputs == {1, 2}

\* main.py:297-308  DELETE /history/{history_id}: a coroutine without an
\* await, which runs from its start to its end.
delete_history_item(history_id) ==
    LET result == {r \in history : r.id = history_id}
    IN
    /\ calls' = calls + 1
    /\ answers' = answers + 1
    /\ IF result = {}
       THEN \* main.py:302-303
            /\ last' = Answer("delete_history_item", [id |-> history_id], 404,
                              "Histórico não encontrado", NoBody, <<>>)
            /\ UNCHANGED history
       ELSE /\ history' = DeleteById(history, history_id)
            /\ last' = Answer("delete_history_item", [id |-> history_id], 204, "",
                              NoBody, <<>>)
    /\ UNCHANGED <<now, ticks, inflight, addresses, nextId, remoteCalls, secundaria>>

\* A call of delete_calculation: pc is "found" (past the SELECT of
\* app.py:230, which found its row), "return" or "done".
Deletion(calculation_id) ==
    [op |-> "delete_calculation", input |-> [id |-> calculation_id], pc |-> "found",
     status |-> 0, detail |-> "", body |-> NoBody, steps |-> <<>>]

\* app.py:227-232  DELETE /calculations/{calculation_id}: the SELECT
begin_delete_calculation(calculation_id) ==
    LET existing == {r \in calculations : r.id = calculation_id}
    IN
    /\ calls' = calls + 1
    /\ IF existing = {}
       THEN \* app.py:231-232
            inflight' = Append(inflight,
                               Returning(Deletion(calculation_id), 404,
                                         "Cálculo não encontrado", NoBody))
       ELSE inflight' = Append(inflight, Deletion(calculation_id))
    /\ UNCHANGED <<now, ticks, principal, remoteCalls, secundaria, last, answers>>

\* app.py:233-235  the DELETE and its commit
finish_delete_calculation(r) ==
    LET call == inflight[r]
    IN
    /\ call.op = "delete_calculation"
    /\ call.pc = "found"
    /\ calculations' = DeleteById(calculations, call.input.id)
    /\ Continue(r, Returning(call, 200, "", [status |-> "deleted", id |-> call.input.id]))
    /\ UNCHANGED <<now, ticks, principal, remoteCalls, configurations, nextCalcId, calls>>

(***************************************************************************)
(* api-secundaria alone, asked by any client, in runs of at most MaxCalls   *)
(* calls.                                                                  *)
(***************************************************************************)
NextEngine ==
    \/ calls < MaxCalls /\ \E request \in CalculateInputs : begin_secondary_calculate(request)
    \/ \E j \in Started : multiplier_secondary_calculate(j)
    \/ \E j \in Started : unit_secondary_calculate(j)
    \/ \E j \in Started : clock_secondary_calculate(j)
    \/ \E j \in Started : insert_secondary_calculate(j)
    \/ calls < MaxCalls /\ \E map \in ConfigurationMaps : begin_update_configuration(map)
    \/ \E r \in Started : update_configuration(r)
    \/ calls < MaxCalls /\ init_db
    \/ calls < MaxCalls /\ \E page \in PageInputs : get_calculations(page[1], page[2])
    \/ calls < MaxCalls /\ \E id \in DeleteInputs : begin_delete_calculation(id)
    \/ \E r \in Started : finish_delete_calculation(r)
    \/ \E j \in Started : return_secondary(j)
    \/ Tick(1)

SpecEngine == Init /\ [][NextEngine]_vars

(***************************************************************************)
(* The two ledgers (history of api-principal, calculations of              *)
(* api-secundaria) with the handlers that append to them, list them and    *)
(* delete from them.                                                       *)
(***************************************************************************)
\* The update the ledgers are run with has a multiplier that is infinite,
\* which gives a row whose distance no JSON number can write.
NextLedgers ==
    \/ calls < MaxOps /\ begin_get_address(CepA)
    \/ \E r \in Started : resume_get_address(r, "ok")
    \/ \E r \in Started : return_get_address(r)
    \/ calls < MaxOps
         /\ begin_secondary_calculate(CalculateRequest(DescriptorSP, DescriptorRJ, "driving"))
    \/ \E j \in Started : multiplier_secondary_calculate(j)
    \/ \E j \in Started : unit_secondary_calculate(j)
    \/ \E j \in Started : clock_secondary_calculate(j)
    \/ \E j \in Started : insert_secondary_calculate(j)
    \/ calls < MaxOps /\ begin_update_configuration(
              [driving_multiplier |-> JsonText(<<"i", "n", "f">>)])
    \/ \E r \in Started : update_configuration(r)
    \/ calls < MaxOps /\ \E page \in PageInputs : get_history(page[1], page[2])
    \/ calls < MaxOps /\ \E page \in PageInputs : get_calculations(page[1], page[2])
    \/ calls < MaxOps /\ \E id \in DeleteInputs : delete_history_item(id)
    \/ calls < MaxOps /\ \E id \in DeleteInputs : begin_delete_calculation(id)
    \/ \E r \in Started : finish_delete_calculation(r)
    \/ \E j \in Started : return_secondary(j)
    \/ Tick(FreshDays * UnitsPerDay)

SpecLedgers == Init /\ [][NextLedgers]_vars

(***************************************************************************)
(* app.py:72-80  get_coordinates as a function of its three texts: each    *)
(* step applies it to texts any request can carry (app.py:136-137).        *)
(***************************************************************************)
\* The characters of the city texts: a letter in both cases, and the letter
\* whose code gives the greatest remainders (ord("c") = 99).
TextAlphabet == {"a", "A", "c"}

\* Every text of at most MaxTextLen of those characters, the empty one
\* included.
CityTexts == UNION {[1..n -> TextAlphabet] : n \in 0..MaxTextLen}

\* States, in both cases, with and without letters beyond ASCII.
StateTexts == {<<>>, <<"S", "P">>, <<"s", "p">>, <<"R", "J">>,
               <<"M", "A", "R", "A", "N", "H", "Ã", "O">>,
               <<"m", "a", "r", "a", "n", "h", "ã", "o">>}

AddressTexts == {<<>>, <<"R", "u", "a", " ", "A">>, <<"r", "U", "A", " ", "a">>, <<"c">>,
                 <<"P", "R", "A", "Ç", "A", " ", "D", "A", " ", "S", "É">>,
                 <<"p", "r", "a", "ç", "a", " ", "d", "a", " ", "s", "é">>}

apply_get_coordinates(city, state, address) ==
    /\ calls < MaxCalls
    /\ calls' = calls + 1
    /\ answers' = answers + 1
    /\ last' = Answer("get_coordinates",
                      [city |-> city, state |-> state, address |-> address], 200, "",
                      [point |-> get_coordinates(city, state, address)], <<>>)
    /\ UNCHANGED <<now, ticks, inflight, principal, secundaria, remoteCalls>>

NextCoordinates ==
    \E city \in CityTexts, state \in StateTexts, address \in AddressTexts :
        apply_get_coordinates(city, state, address)

SpecCoordinates == Init /\ [][NextCoordinates]_vars

(***************************************************************************)
(* main.py:130-198  GET /address/{cep}: calls for one code that run at the *)
(* same time.                                                              *)
(***************************************************************************)
\* The calls start with no row for the code, or with the row an earlier
\* call (the first of inflight, which calls and answers do not count)
\* fetched at time 0, which is stale by now.
InitConcurrent ==
    LET data == ViaCepPayload(CepA, "ok")
        row == AddressRow(data, 0)
        earlier == [op |-> "get_address", input |-> [cep |-> CepA], pc |-> "done",
                    cep |-> CepA, answer |-> "ok", data |-> data, wrote |-> TRUE,
                    row |-> row, order |-> 1, at |-> 0, status |-> 200,
                    detail |-> "", body |-> Address(data),
                    steps |-> <<Step("select", CepA, ""), Step("viacep", CepA, "ok"),
                                Step("upsert", CepA, ""), Step("history", CepA, "")>>]
    IN
    /\ ticks = 0
    /\ calculations = {}
    /\ configurations = SeedConfigurations({}, 0)
    /\ nextCalcId = 0
    /\ calls = 0
    /\ answers = 0
    /\ \/ /\ now = 0
          /\ addresses = {}
          /\ history = {}
          /\ nextId = 0
          /\ remoteCalls = 0
          /\ inflight = <<>>
       \/ /\ now = FreshDays * UnitsPerDay
          /\ addresses = {row}
          /\ history = {HistoryRow(1, "address_query", [cep |-> CepA], data, 0)}
          /\ nextId = 1
          /\ remoteCalls = 1
          /\ inflight = <<earlier>>
    /\ last = Answer("none", [none |-> TRUE], 0, "", NoBody, <<>>)

NextConcurrent ==
    \/ calls < MaxRequests /\ begin_get_address(CepA)
    \/ \E r \in Started : \E answer \in ViaCepAnswers : resume_get_address(r, answer)
    \/ \E r \in Started : return_get_address(r)
    \/ Tick(1)

SpecConcurrent == InitConcurrent /\ [][NextConcurrent]_vars

(***************************************************************************)
(* main.py:163-196  The upsert and the history entry are two statements    *)
(* with a commit each (main.py:182 and 196).  The second one can raise     *)
(* (sqlite3.OperationalError: the database is locked by another process,   *)
(* the disk is full): get_address catches nothing, the call ends with a    *)
(* 500, given when the client is closed, and the row committed at          *)
(* main.py:182 stays.                                                      *)
(***************************************************************************)
get_address_history_raises(r, answer) ==
    LET call == inflight[r]
        data == ViaCepPayload(call.cep, answer)
        row == AddressRow(data, now)
        upserted == [call EXCEPT !.answer = answer, !.at = now, !.data = data,
                                 !.wrote = TRUE, !.row = row,
                                 !.order = Cardinality(Writes) + 1,
                                 !.steps = @ \o <<Step("viacep", call.cep, answer),
                                                  Step("upsert", row.cep, "")>>]
    IN
    /\ call.op = "get_address"
    /\ call.pc = "awaiting"
    /\ ViaCepStatus(answer) = 200
    /\ ~HasErro(data)
    /\ addresses' = InsertOrReplace(addresses, row)
    /\ Close(r, upserted, 500, "Internal Server Error", NoBody)
    /\ UNCHANGED <<now, ticks, history, nextId, remoteCalls, secundaria, calls>>

NextAudit ==
    \/ calls < MaxRequests /\ begin_get_address(CepA)
    \/ \E r \in Started : \E answer \in ViaCepAnswers : resume_get_address(r, answer)
    \/ \E r \in Started : \E answer \in {"ok", "ok_partial"} :
           get_address_history_raises(r, answer)
    \/ \E r \in Started : return_get_address(r)
    \/ Tick(1)

SpecAudit == InitConcurrent /\ [][NextAudit]_vars

(***************************************************************************)
(* Both services with every handler, in runs of at most MaxCalls calls.    *)
(***************************************************************************)
NextSystem ==
    \/ calls < MaxCalls /\ begin_get_address(CepA)
    \/ \E r \in Started : \E answer \in {"ok", "erro"} : resume_get_address(r, answer)
    \/ \E r \in Started : return_get_address(r)
    \/ calls < MaxCalls /\ begin_calculate_distance(CepA, CepB, "driving")
    \/ \E r \in Started : \E answer \in {"ok", "erro"} : origin_calculate_distance(r, answer)
    \/ \E r \in Started : \E answer \in {"ok", "erro"} :
           destination_calculate_distance(r, answer)
    \/ \E r \in Started : engine_calculate_distance(r)
    \/ \E r \in Started : raise_calculate_distance(r)
    \/ \E r \in Started : \E answer \in GatewayAnswers : gateway_calculate_distance(r, answer)
    \/ \E r \in Started : finish_calculate_distance(r)
    \/ \E r \in Started : return_calculate_distance(r)
    \/ calls < MaxCalls
         /\ begin_secondary_calculate(CalculateRequest(DescriptorSP, DescriptorRJ, "driving"))
    \/ \E j \in Started : multiplier_secondary_calculate(j)
    \/ \E j \in Started : unit_secondary_calculate(j)
    \/ \E j \in Started : clock_secondary_calculate(j)
    \/ \E j \in Started : insert_secondary_calculate(j)
    \* update_configuration with the maps that change what a trip is answered
    \/ calls < MaxCalls
         /\ \E map \in {m \in ConfigurationMaps :
                            "default_unit" \in DOMAIN m
                               \/ m = [driving_multiplier |-> JsonText(<<"i", "n", "f">>)]} :
                begin_update_configuration(map)
    \/ \E r \in Started : update_configuration(r)
    \/ calls < MaxCalls /\ init_db
    \/ calls < MaxCalls /\ \E page \in PageInputs : get_history(page[1], page[2])
    \/ calls < MaxCalls /\ \E page \in PageInputs : get_calculations(page[1], page[2])
    \/ calls < MaxCalls /\ \E id \in DeleteInputs : delete_history_item(id)
    \/ calls < MaxCalls /\ \E id \in DeleteInputs : begin_delete_calculation(id)
    \/ \E r \in Started : finish_delete_calculation(r)
    \/ \E j \in Started : return_secondary(j)
    \/ Tick(FreshDays * UnitsPerDay)

SpecSystem == Init /\ [][NextSystem]_vars

(***************************************************************************)
(* Properties.  The statements below are written from the specification,  *)
(* with their own reading of "the digits of a code" and of "fresh", not    *)
(* with the operators of the handlers.                                     *)
(***************************************************************************)
\* The ten digits a postal code is written with.
Numerals == {"0", "1", "2", "3", "4", "5", "6", "7", "8", "9"}

RECURSIVE OnlyDigits(_)
\* The digits of a text, in order.
OnlyDigits(text) ==
    IF text = <<>> THEN <<>>
    ELSE IF Head(text) \in Numerals THEN <<Head(text)>> \o OnlyDigits(Tail(text))
    ELSE OnlyDigits(Tail(text))

\* A code is well formed when it has exactly eight digits once stripped.
WellFormed(text) == Len(OnlyDigits(text)) = 8

\* A row is fresh at time t when it was refreshed less than 30 days before.
FreshAt(row, t) == t - row.last_updated < FreshDays * UnitsPerDay

\* The step gives the answer of a call of handler op.
Ended(op) == answers' = answers + 1 /\ last'.op = op

\* The places of a call that has its answer: it gives it in the step it
\* gets it ("done"), or it holds it for a later step ("closing", "return").
Answered == {"closing", "return", "done"}

\* The calls of handler op that get their answer in the step.
Settling(op) ==
    {r \in 1..Len(inflight') :
        /\ inflight'[r].op = op
        /\ inflight'[r].pc \in Answered
        /\ r \in Started => inflight[r].pc \notin Answered}

\* Call r as the step leaves it: status, detail, body and steps are those
\* of its answer once it has one.
After(r) == inflight'[r]

\* Two distances that are the same number (-0.0 and 0.0 are).
SameNumber(a, b) ==
    \/ a = b
    \/ /\ a.kind = "finite" /\ b.kind = "finite"
       /\ a.hundredths = <<>> /\ b.hundredths = <<>>

\* The call that starts in the step, when it is one that inflight holds.
Newest == inflight'[Len(inflight')]

\* The step is the start of a call of handler op.
Began(op) ==
    /\ calls' = calls + 1
    /\ Len(inflight') = Len(inflight) + 1
    /\ Newest.op = op

\* In the step, call r of handler op goes from one place to another.
Moved(r, op, from, to) ==
    /\ inflight[r].op = op
    /\ inflight[r].pc = from
    /\ inflight'[r].pc = to

\* The steps of a call that are requests to ViaCEP.
ViaCepSteps(answer) ==
    {i \in 1..Len(answer.steps) : answer.steps[i].step = "viacep"}

\* C1 (as claimed): get_address strips the non-digits of its input; when
\* what remains is not exactly 8 digits it fails with 400 "CEP deve conter 8
\* dígitos" before any storage read, remote call, upsert or history append:
\* addresses, history and the count of remote calls are unchanged.
C1_InvalidFormatBeforeIO ==
    [][Began("get_address") =>
        IF WellFormed(Newest.input.cep)
        THEN /\ Newest.steps # <<>>
             /\ Newest.steps[1] = Step("select", OnlyDigits(Newest.input.cep), "")
        ELSE /\ Ended("get_address")
             /\ last'.status = 400
             /\ last'.detail = "CEP deve conter 8 dígitos"
             /\ last'.steps = <<>>
             /\ addresses' = addresses
             /\ history' = history
             /\ remoteCalls' = remoteCalls]_vars

\* C2 (as claimed): whenever get_address succeeds, the postal code of the
\* record it returns is the digits of its input, without separator.
C2_ReturnedCodeIsNormalized ==
    (last.op = "get_address" /\ last.status = 200)
        => last.body.cep = OnlyDigits(last.input.cep)

\* C3: when storage holds a row for the code that is less than 30 days old,
\* get_address returns that row and makes no remote call, no upsert and no
\* history append.
C3_FreshHitHasNoEffect ==
    [][Began("get_address") =>
        \A r \in addresses :
            (r.cep = OnlyDigits(Newest.input.cep) /\ FreshAt(r, now)) =>
                /\ Ended("get_address")
                /\ Newest.pc = "done"
                /\ last'.input = Newest.input
                /\ last'.status = 200
                /\ last'.body = [k \in AddressFields |-> r[k]]
                /\ ViaCepSteps(last') = {}
                /\ remoteCalls' = remoteCalls
                /\ addresses' = addresses
                /\ history' = history]_vars

\* C3 witness: the second call, one time unit less than 30 days after the
\* remote fetch of the first, was served from storage; one remote call and
\* one history entry exist.
C3_Witness ==
    /\ last.op = "get_address"
    /\ last.status = 200
    /\ Len(last.steps) = 1
    /\ calls = 2
    /\ remoteCalls = 1
    /\ Cardinality(history) = 1
    /\ \E r \in addresses :
           /\ r.cep = OnlyDigits(last.input.cep)
           /\ last.at - r.last_updated = FreshDays * UnitsPerDay - 1

\* C4: get_address serves a well-formed code from storage exactly when a row
\* of that code is less than 30 days old; for an older row, and for no row,
\* it calls the remote collaborator, with that code.
C4_ServedFromCacheIffFresh ==
    [][/\ (Began("get_address") /\ WellFormed(Newest.input.cep)) =>
           LET c == OnlyDigits(Newest.input.cep)
               fresh == \E r \in addresses : r.cep = c /\ FreshAt(r, now)
               served == /\ Ended("get_address")
                         /\ last'.status = 200
                         /\ remoteCalls' = remoteCalls
                         /\ ViaCepSteps(last') = {}
               asked == /\ remoteCalls' = remoteCalls + 1
                        /\ Newest.pc = "awaiting"
                        /\ answers' = answers
           IN  /\ served <=> fresh
               /\ asked <=> ~fresh
       /\ \A r \in Started :
              (/\ inflight[r].op = "get_address"
               /\ inflight[r].pc = "awaiting"
               /\ inflight'[r].pc # "awaiting"
               /\ WellFormed(inflight[r].input.cep)) =>
                  /\ ViaCepSteps(inflight'[r]) = {2}
                  /\ inflight'[r].steps[2].arg = OnlyDigits(inflight[r].input.cep)
                  /\ remoteCalls' = remoteCalls]_vars

\* C4 witness: a row exactly 30 days old was not trusted: the remote
\* collaborator was asked (and knew no such code, so the row is still there).
C4_Witness ==
    /\ last.op = "get_address"
    /\ Len(last.steps) = 2
    /\ last.steps[2].result = "erro"
    /\ \E r \in addresses :
           /\ r.cep = OnlyDigits(last.input.cep)
           /\ last.at - r.last_updated = FreshDays * UnitsPerDay

\* C5 (as claimed): a get_address that reaches the remote collaborator and
\* gets an address makes exactly one remote call, leaves exactly one row for
\* the normalized code, which is refreshed now (a prior row is replaced,
\* every other row is kept), and appends exactly one history entry, an
\* address_query of that code; no code ever has two rows.
C5_OneCallOneUpsertOneEntry ==
    [][\A r \in Started :
        LET c == OnlyDigits(inflight[r].input.cep)
            added == history' \ history
        IN
        (Moved(r, "get_address", "awaiting", "closing") /\ inflight'[r].wrote) =>
              /\ remoteCalls' = remoteCalls
              /\ Cardinality(ViaCepSteps(inflight'[r])) = 1
              /\ Cardinality({a \in addresses' : a.cep = c}) = 1
              /\ \A a \in addresses' : a.cep = c => a.last_updated = now
              /\ {a \in addresses' : a.cep # c} = {a \in addresses : a.cep # c}
              /\ \A a1, a2 \in addresses' : a1.cep = a2.cep => a1 = a2
              /\ history \subseteq history'
              /\ Cardinality(added) = 1
              /\ \A e \in added :
                     /\ e.query_type = "address_query"
                     /\ e.query_data.cep = c
                     /\ e.created_at = now
                     /\ \A h \in history : h.id # e.id]_vars

\* The calls whose answer is a failure.
Failure(answer) == answer.status \notin {200, 204}

\* C6 (as claimed): a call of get_address or of calculate_distance that
\* ends in failure leaves the history as it was.
C6_FailedCallsLeaveNoHistory ==
    [][\A r \in Settling("get_address") \cup Settling("calculate_distance") :
          Failure(After(r)) => history' = history]_vars

\* C7 (as claimed): calculate_distance gets both addresses through the
\* address cache: it sends no remote lookup for a code that has a fresh row,
\* and a code it does fetch remotely is upserted and audited with an
\* address_query entry.
C7_TripUsesAddressCache ==
    [][/\ Began("calculate_distance") =>
              ~\E a \in addresses :
                  a.cep = OnlyDigits(Newest.input.origin_cep) /\ FreshAt(a, now)
       /\ \A r \in Settling("calculate_distance") :
              \A i \in ViaCepSteps(After(r)) :
                  LET c == OnlyDigits(After(r).steps[i].arg)
                  IN  After(r).steps[i].result \in {"ok", "ok_partial"} =>
                          /\ \E a \in addresses' : a.cep = c
                          /\ \E e \in history' :
                                 /\ e.query_type = "address_query"
                                 /\ e.query_data = [cep |-> c]]_vars

\* C8 (as claimed): calculate_distance refuses a code that is not 8 digits
\* with InvalidFormat (400, "CEP deve conter 8 dígitos") before any remote
\* call, and the code it looks up remotely is the 8 digits, separators
\* stripped.
C8_TripRejectsMalformedCodes ==
    [][/\ (Began("calculate_distance") /\ remoteCalls' # remoteCalls) =>
              WellFormed(Newest.input.origin_cep)
       /\ \A r \in Settling("calculate_distance") :
              /\ (~WellFormed(After(r).input.origin_cep)
                    \/ ~WellFormed(After(r).input.destination_cep)) =>
                     /\ After(r).status = 400
                     /\ After(r).detail = "CEP deve conter 8 dígitos"
                     /\ ViaCepSteps(After(r)) = {}
              /\ \A i \in ViaCepSteps(After(r)) :
                     /\ WellFormed(After(r).steps[i].arg)
                     /\ After(r).steps[i].arg = OnlyDigits(After(r).steps[i].arg)]_vars

\* The answers of ViaCEP that are a failed lookup.
FailedLookup == {"erro", "400", "404", "503", "exception"}
OriginTags == {"Erro ao consultar endereço de origem", "CEP de origem não encontrado"}
DestinationTags == {"Erro ao consultar endereço de destino",
                    "CEP de destino não encontrado"}
EngineTags == {EngineDetail(g.text) : g \in GatewayAnswers}
                  \cup {EngineDetail("Internal Server Error")}
TripOrder == <<"viacep", "viacep", "engine", "history">>

\* C9 (as claimed): calculate_distance takes its steps in the order origin
\* lookup, destination lookup, engine call, history append and stops at the
\* first failure, with an error that names the side that failed: origin,
\* destination or engine.
C9_TripFailuresAreTagged ==
    [][\A r \in Settling("calculate_distance") :
        LET st == After(r).steps
            n == Len(st)
        IN  /\ n \in 1..4
            /\ \A i \in 1..n : st[i].step = TripOrder[i]
            /\ st[1].result \in FailedLookup =>
                   /\ n = 1
                   /\ After(r).detail \in OriginTags
                   /\ history' = history /\ calculations' = calculations
            /\ (n >= 2 /\ st[2].result \in FailedLookup) =>
                   /\ n = 2
                   /\ After(r).detail \in DestinationTags
                   /\ history' = history /\ calculations' = calculations
            /\ (n = 3 /\ Failure(After(r))) =>
                   /\ After(r).detail \in EngineTags
                   /\ history' = history]_vars

\* A distance that is a number greater than 0.
Positive(distance) ==
    distance.kind = "finite" /\ ~distance.neg /\ distance.hundredths # <<>>

\* The calls of the engine that worked for call r.
JobsOf(r) == {j \in Started : inflight[j].op = "calculate" /\ inflight[j].caller = r}

\* C10: a calculate_distance that returns has appended exactly one history
\* entry, a distance_calculation, and exactly one row was written to
\* calculations for it; the distance and unit returned are those of that
\* row.
C10_OneEntryOneCalculation ==
    [][\A r \in Started :
        (Moved(r, "calculate_distance", "engine", "closing") /\ After(r).status = 200) =>
        LET added == history' \ history
            written == {c \in calculations' :
                           \E j \in JobsOf(r) : inflight[j].status = 200
                                                /\ inflight[j].body.id = c.id}
        IN  /\ After(r).input = inflight[r].input
            /\ history \subseteq history'
            /\ Cardinality(added) = 1
            /\ \A e \in added : e.query_type = "distance_calculation"
            /\ Cardinality(JobsOf(r)) = 1
            /\ Cardinality(written) = 1
            /\ \A c \in written :
                   /\ SameNumber(c.distance, After(r).body.distance)
                   /\ c.unit = After(r).body.unit
                   /\ c.mode = After(r).input.travel_mode]_vars

\* C10 witness: after an update that set the unit to miles, a distance
\* request returned a positive distance in miles (1169.44, by car from Sao
\* Paulo to Rio de Janeiro); one calculation, in miles, and one
\* distance_calculation entry exist.
C10_Witness ==
    /\ last.op = "calculate_distance"
    /\ last.status = 200
    /\ Positive(last.body.distance)
    /\ last.body.distance.hundredths = BigFromInt(116944)
    /\ last.body.unit = <<"m", "i">>
    /\ \A c \in calculations : c.unit = <<"m", "i">>
    /\ Cardinality(calculations) = 1
    /\ Cardinality({e \in history : e.query_type = "distance_calculation"}) = 1

(***************************************************************************)
(* The configuration store (SpecEngine).                                   *)
(***************************************************************************)
\* The keys of a map that have a row in a table of configurations.
KeysWithRow(conf, map) == {key \in DOMAIN map : \E c \in conf : c.id = key}

\* The row of a key.
RowOf(conf, key) == CHOOSE c \in conf : c.id = key

\* C11 (as claimed): an update called with a non-empty map writes every key
\* it is given, whether the key has a row or not, and answers with all the
\* keys given as updated.
C11_UpdateWritesEveryKeyGiven ==
    [][\A r \in Settling("update_configuration") :
          LET map == After(r).input.configurations IN
          DOMAIN map # {} =>
              /\ After(r).status = 200
              /\ After(r).body.updated = DOMAIN map
              /\ \A key \in DOMAIN map :
                    \E c \in configurations' : c.id = key /\ c.value = Str(map[key])]_vars

\* C11 (amended): an update writes exactly the keys given that already have
\* a row (value str(value), updated_at the time the call read when it
\* started), adds no row for a key that has none and leaves the other rows
\* as they were; when at least one key given has a row, it answers with
\* those keys, and only those, as updated.
C11_UpdateWritesKeysThatExist ==
    [][\A r \in Settling("update_configuration") :
          LET map == After(r).input.configurations
              written == KeysWithRow(configurations, map)
          IN
          /\ {c.id : c \in configurations'} = {c.id : c \in configurations}
          /\ \A c \in configurations :
                LET after == RowOf(configurations', c.id) IN
                IF c.id \in written
                THEN after = [c EXCEPT !.value = Str(map[c.id]),
                                       !.updated_at = inflight[r].timestamp]
                ELSE after = c
          /\ inflight[r].timestamp <= now
          /\ written # {} => After(r).status = 200 /\ After(r).body.updated = written]_vars

\* An update was given a key that has a row and a key that has none: it
\* answered with the first only, and there is no row for the second.
C11_Witness ==
    /\ last.op = "update_configuration"
    /\ last.status = 200
    /\ "cycling_multiplier" \in DOMAIN last.input.configurations
    /\ last.body.updated = {"driving_multiplier"}
    /\ \A c \in configurations : c.id # "cycling_multiplier"
    /\ RowOf(configurations, "driving_multiplier").value = <<"1", ".", "5">>

\* C12: an update fails with NoValidKeys (400) exactly when none of the keys
\* it is given could be written, that is has a row; a failed update leaves
\* every configuration row (value and updated_at) as it was; an update that
\* writes a key does not fail.
C12_NoValidKeysIffNothingWritten ==
    [][\A r \in Settling("update_configuration") :
          LET map == After(r).input.configurations
              writable == KeysWithRow(configurations, map)
          IN
          /\ (After(r).status = 400
                 /\ After(r).detail = "Nenhuma configuração válida foi fornecida")
                <=> writable = {}
          /\ After(r).status \in {200, 400}
          /\ After(r).status = 400 => configurations' = configurations
          /\ configurations' # configurations => After(r).status = 200]_vars

\* An update with a key that has no row failed, after an earlier update
\* had written a value; that value and its time are still there.
C12_Witness ==
    /\ last.op = "update_configuration"
    /\ last.status = 400
    /\ DOMAIN last.input.configurations = {"cycling_multiplier"}
    /\ RowOf(configurations, "default_unit").value = <<"m", "i">>
    /\ RowOf(configurations, "default_unit").updated_at < now

\* The defaults the seed inserts.
SeedValues ==
    [direct_multiplier |-> <<"1", ".", "2">>, walking_multiplier |-> <<"1", ".", "4">>,
     driving_multiplier |-> <<"1", ".", "1">>, default_unit |-> <<"k", "m">>]

\* C13: the first initialization inserts the four defaults; running the
\* initialization again leaves every row there is as it was, and adds only
\* defaults, for keys that have no row.
C13_SeedingIsInsertIfAbsent ==
    /\ {c.id : c \in configurations} = DOMAIN SeedValues
    /\ \A c \in configurations : c.value = SeedValues[c.id]
    /\ [][Ended("init_db") =>
            /\ configurations \subseteq configurations'
            /\ \A c \in configurations' \ configurations :
                  /\ c.id \in DOMAIN SeedValues
                  /\ c.value = SeedValues[c.id]
                  /\ \A o \in configurations : o.id # c.id]_vars

\* The initialization ran again after an update had changed a default, and
\* the changed value is still there.
C13_Witness ==
    /\ last.op = "init_db"
    /\ RowOf(configurations, "driving_multiplier").value = <<"-", "1", ".", "0">>
    /\ RowOf(configurations, "driving_multiplier").updated_at < now

(***************************************************************************)
(* The ledgers (SpecLedgers).                                              *)
(***************************************************************************)
\* The stores a delete or a list of one ledger must leave as they are.
OtherThanHistory == <<addresses, calculations, configurations>>
OtherThanCalculations == <<addresses, history, configurations>>

\* What the claim asks of one delete: id is the id asked, before and after
\* are the ledger before and after the call.
DeletedExactly(before, after, id, status) ==
    IF \E r \in before : r.id = id
    THEN /\ after = {r \in before : r.id # id}
         /\ Cardinality(before \ after) = 1
         /\ status # 404
    ELSE /\ after = before
         /\ status = 404

\* C14 (as claimed): on the history ledger and on the calculation store, a
\* delete of an id that is not there fails with NotFound (404) and changes
\* nothing; a delete of an id that is there removes the entry of that id
\* and no other, and leaves the other stores as they were.  The claim is
\* asked of the step in which the delete gets its answer; a delete that has
\* no answer yet has changed nothing.
C14_DeleteRemovesExactlyThatEntry ==
    [][/\ Ended("delete_history_item") =>
            /\ DeletedExactly(history, history', last'.input.id, last'.status)
            /\ UNCHANGED OtherThanHistory
       /\ \A r \in Settling("delete_calculation") :
            /\ DeletedExactly(calculations, calculations', After(r).input.id,
                              After(r).status)
            /\ UNCHANGED OtherThanCalculations
       /\ (Began("delete_calculation") /\ Newest.pc = "found") =>
            UNCHANGED <<calculations, OtherThanCalculations>>]_vars

\* The order the claim asks for: newest first by created_at, the timestamp
\* of an entry being its half day and its reading.
RECURSIVE NewestFirst(_)
NewestFirst(table) ==
    IF table = {} THEN <<>>
    ELSE LET first == CHOOSE r \in table : \A o \in table \ {r} :
                          \/ r.created_at > o.created_at
                          \/ r.created_at = o.created_at /\ r.reading > o.reading
         IN  <<first>> \o NewestFirst(table \ {first})

\* In that order no entry appended later comes after one appended earlier
\* (ids are given in the order of the appends).
AppendedLaterFirst(table) ==
    LET rows == NewestFirst(table)
    IN  \A i, k \in 1..Len(rows) : i < k => rows[i].id > rows[k].id

\* The page the claim asks for: the first offset entries of that order
\* skipped, and then at most limit entries.
ClaimedPage(table, limit, offset) ==
    LET rows == NewestFirst(table)
        last_index == IF offset + limit < Len(rows) THEN offset + limit ELSE Len(rows)
    IN  SubSeq(rows, offset + 1, last_index)

\* C15 (as claimed): a list of the history ledger or of the calculation
\* store returns the entries newest first by created_at, without the first
\* offset entries and at most limit of them, and changes no store; an entry
\* appended later never comes after one appended earlier.
C15_ListIsNewestFirstPage ==
    [][/\ Ended("get_history") =>
            /\ last'.body.items = ClaimedPage(history, last'.input.limit, last'.input.skip)
            /\ AppendedLaterFirst(history)
            /\ UNCHANGED <<principal, secundaria>>
       /\ \A r \in Settling("get_calculations") :
            /\ After(r).status = 200
            /\ After(r).body.items =
                   ClaimedPage(calculations, After(r).input.limit, After(r).input.offset)
            /\ AppendedLaterFirst(calculations)
            /\ UNCHANGED <<principal, secundaria>>]_vars

(***************************************************************************)
(* The distance engine (SpecEngine).                                       *)
(***************************************************************************)
\* A distance that is the number 0.
IsZeroDistance(distance) == distance.kind = "finite" /\ distance.hundredths = <<>>

\* A distance that is a number greater than or equal to 0.
NonNegative(distance) ==
    distance.kind # "nan" /\ (IsZeroDistance(distance) \/ ~distance.neg)

\* C16 (as claimed): whatever the mode and whatever the configurations that
\* seeding and updates have left, a computation on two identical
\* descriptors returns the distance 0.
C16_IdenticalDescriptorsGiveZero ==
    [][\A r \in Settling("calculate") :
          After(r).input.origin = After(r).input.destination =>
              /\ After(r).status = 200
              /\ IsZeroDistance(After(r).body.distance)]_vars

\* C17 (as claimed): in every reachable state the distance of every
\* calculation stored is greater than or equal to 0.
C17_StoredDistancesAreNonNegative ==
    \A r \in calculations : NonNegative(r.distance)

(***************************************************************************)
(* The synthesized coordinates (SpecCoordinates), in thousandths of a      *)
(* degree.                                                                 *)
(***************************************************************************)
\* Two inputs that differ in the case of their letters only.
SameButForCase(a, b) ==
    /\ Lower(a.city) = Lower(b.city)
    /\ Lower(a.state) = Lower(b.state)
    /\ Lower(a.address) = Lower(b.address)

\* C18: get_coordinates depends on its texts through their lower-case form
\* only (two inputs that differ in letter case give the same point); the
\* latitude is within [-30, -5] and the longitude within [-70, -35]; the
\* street moves both coordinates by the same amount, of less than one
\* degree; three empty texts give the point (-30, -70).
C18_CoordinatesAreBoundedAndCaseBlind ==
    [][Ended("get_coordinates") =>
          LET in == last'.input
              point == last'.body.point
              plain == get_coordinates(in.city, in.state, <<>>)
          IN
          /\ (last.op = "get_coordinates" /\ SameButForCase(last.input, in))
                => point = last.body.point
          /\ point[1] >= -30000 /\ point[1] <= -5000
          /\ point[2] >= -70000 /\ point[2] <= -35000
          /\ point[1] - plain[1] = point[2] - plain[2]
          /\ point[1] - plain[1] >= 0 /\ point[1] - plain[1] < 1000
          /\ plain[1] % 1000 = 0 /\ plain[2] % 1000 = 0
          /\ (in.city = <<>> /\ in.state = <<>> /\ in.address = <<>>)
                => point = <<-30000, -70000>>]_vars

\* The point of texts with capital letters, two of them beyond ASCII, was
\* taken, in a second call, and it is the point of the same texts written
\* in the other case.
C18_Witness ==
    /\ last.op = "get_coordinates"
    /\ calls = 2
    /\ last.input = [city |-> <<"A", "c">>,
                     state |-> <<"M", "A", "R", "A", "N", "H", "Ã", "O">>,
                     address |-> <<"P", "R", "A", "Ç", "A", " ", "D", "A", " ", "S", "É">>]
    /\ last.body.point =
           get_coordinates(<<"a", "c">>, <<"m", "a", "r", "a", "n", "h", "ã", "o">>,
                           <<"p", "r", "a", "ç", "a", " ", "d", "a", " ", "s", "é">>)

(***************************************************************************)
(* Calls of get_address at the same time (SpecConcurrent).                 *)
(***************************************************************************)
\* No call is between its start and its end.
AllCallsEnded == \A r \in Started : inflight[r].pc = "done"

\* The calls ViaCEP answered with an address.
FetchedWithSuccess ==
    {r \in Started : inflight[r].pc = "done"
                     /\ inflight[r].answer \in {"ok", "ok_partial"}}

\* The call whose upsert of a code came last.
LastWriter(code) ==
    CHOOSE r \in Writes :
        /\ inflight[r].row.cep = code
        /\ \A q \in Writes : inflight[q].row.cep = code
                                => inflight[q].order <= inflight[r].order

\* C19: when calls of get_address for the same code, absent or stale, have
\* run at the same time in any interleaving and all have ended, storage
\* holds one row for the code, and it is, field by field, the row of the
\* upsert that came last; the history holds one address_query entry for
\* each call that ViaCEP answered with an address, and no other.
C19_LastWriterWinsAndEveryFetchIsRecorded ==
    AllCallsEnded =>
        /\ \A r \in Writes :
              {a \in addresses : a.cep = inflight[r].row.cep}
                  = {inflight[LastWriter(inflight[r].row.cep)].row}
        /\ Writes = FetchedWithSuccess
        /\ Cardinality(history) = Cardinality(FetchedWithSuccess)
        /\ \A r \in FetchedWithSuccess :
              \E h \in history :
                  /\ h.query_type = "address_query"
                  /\ h.query_data = [cep |-> inflight[r].cep]
                  /\ h.result = inflight[r].data
                  /\ h.created_at = inflight[r].at
        /\ \A h \in history :
              \E r \in FetchedWithSuccess :
                  /\ h.query_data = [cep |-> inflight[r].cep]
                  /\ h.result = inflight[r].data
                  /\ h.created_at = inflight[r].at

\* Two calls found the row of an earlier call stale, both asked ViaCEP and
\* both upserted, the call that started second writing first; their
\* payloads differ, and the three calls have an entry each.
C19_Witness ==
    /\ AllCallsEnded
    /\ Writes = {1, 2, 3}
    /\ inflight[3].order < inflight[2].order
    /\ inflight[2].row # inflight[3].row
    /\ inflight[2].data # inflight[3].data
    /\ remoteCalls = 3
    /\ Cardinality(history) = 3

(***************************************************************************)
(* Entries once appended (SpecSystem).                                     *)
(***************************************************************************)
\* The ids whose delete from the history, and from the calculations, is
\* the step.
HistoryDeleted ==
    IF Ended("delete_history_item") /\ last'.status = 204 THEN {last'.input.id} ELSE {}
CalculationsDeleted ==
    {After(r).input.id : r \in {d \in Settling("delete_calculation") :
                                    After(d).status = 200}}

\* What the claim asks of one step for one ledger: every entry there was
\* is there as it was, unless the step is the delete of its id, and no
\* entry after the step has the id of an entry before it with other
\* fields.
KeptAsAppended(before, after, deleted) ==
    /\ \A e \in before :
          \/ e \in after
          \/ /\ e.id \in deleted
             /\ \A o \in after : o.id # e.id
    /\ \A e \in before : \A o \in after : o.id = e.id => o = e

\* C20: no step changes a field of a history entry or of a calculation
\* record there is; an entry leaves its store only by the delete of its
\* own id; the refresh of an address and the update of the configuration
\* leave every entry as it was appended.
C20_EntriesAreNeverChanged ==
    [][/\ KeptAsAppended(history, history', HistoryDeleted)
       /\ KeptAsAppended(calculations, calculations', CalculationsDeleted)]_vars

\* An address was fetched again after it went stale: the row has the time
\* of the second fetch, and the entry of the first fetch is in the history
\* with its own time beside the entry of the second.
C20_Witness ==
    /\ last.op = "get_address"
    /\ Cardinality(history) = 2
    /\ \E a \in addresses : \E h \in history :
          /\ h.query_type = "address_query"
          /\ h.query_data = [cep |-> a.cep]
          /\ h.created_at < a.last_updated

(***************************************************************************)
(* The audit of the address cache (SpecAudit).                             *)
(***************************************************************************)
\* A call of get_address has ended, with success or with failure, and none
\* is between its start and its end.
CallsHaveEnded ==
    /\ \E r \in Started : inflight[r].pc = "done"
    /\ \A r \in Started : inflight[r].pc = "done"

\* C21 (as claimed): in every state after the calls of get_address have
\* ended, with success or with failure (no history entry is ever deleted
\* here), every address row has an address_query entry of the same code
\* whose created_at is the last_updated of the row: the upsert is never
\* left without its entry.
C21_EveryRowHasItsHistoryEntry ==
    CallsHaveEnded =>
        \A a \in addresses :
            \E h \in history :
                /\ h.query_type = "address_query"
                /\ h.query_data = [cep |-> a.cep]
                /\ h.created_at = a.last_updated

(***************************************************************************)
(* The configuration and the engine (SpecEngine).                          *)
(***************************************************************************)
\* C22 (as claimed): after any sequence of configuration updates answered
\* with success, every computation is answered with a distance and a unit,
\* and stores one calculation record with that distance and that unit: no
\* content of the configuration makes the computation fail.
C22_ConfigurationNeverBreaksCompute ==
    [][\A j \in Settling("calculate") :
          /\ After(j).status = 200
          /\ \E r \in calculations' :
                /\ calculations' = calculations \cup {r}
                /\ r \notin calculations
                /\ r.id = After(j).body.id
                /\ SameNumber(r.distance, After(j).body.distance)
                /\ r.unit = After(j).body.unit]_vars

=============================================================================
